---- MODULE Spec2Model ----
(***************************************************************************)
(* A model of the simulation core of blue_escape: the voxel store (World), *)
(* the player's physics step (Controls.update) and the jump requests, the  *)
(* combat system, the entities, and the frame loop with its listeners.     *)
(*                                                                         *)
(* Numbers.  The program computes with JavaScript Numbers.  The model uses *)
(* fixed point: the integer n stands for the Number n / Unit, so with      *)
(* Unit = 10 the value 0.6 is 6 and one block (1.0) is 10.  Every value    *)
(* the model feeds to the program is exactly representable, and products   *)
(* of two fixed-point values are renormalised by FMul.                     *)
(***************************************************************************)
EXTENDS Integers, FiniteSets, Sequences, TLC

VARIABLES
    worldData,      \* World.worldData: Map key -> blockType, a function on the set of stored keys
    meshes,         \* World.meshes: the keys that own a mesh
    camera,         \* camera.position: [x, y, z] in fixed point
    velocity,       \* Controls.velocity: [x, y, z] in fixed point per second
    canJump,        \* Controls.canJump
    moveForward,    \* Controls.moveForward
    moveBackward,   \* Controls.moveBackward
    moveLeft,       \* Controls.moveLeft
    moveRight,      \* Controls.moveRight
    active,         \* MobileControls.active: the touch listeners are installed
    attackCooldown, \* CombatSystem.attackCooldown, in fixed point seconds
    projectiles,    \* CombatSystem.projectiles: the live projectiles, in firing order
    playerHealth,   \* CombatSystem.playerHealth, in health points
    heap,           \* the Entity objects, by identity: their fields
    advanced,       \* the time CombatSystem.update has advanced since the last shot fired, up to attackRate
    gameState,      \* Game.gameState: "playing", "victory" or "defeat"
    isMouseDown,    \* Game.isMouseDown
    isLocked,       \* Controls.isLocked
    entities,       \* Game.entities: the identities of the entities updated each frame
    bosses,         \* Game.bosses
    zombies,        \* Game.zombies
    treasures,      \* Game.treasures
    machineGun,     \* Game.machineGun: an identity, or NoEntity for null
    frameNo,        \* the number of frames Game.animate has run so far
    call            \* the last operation: its name, its arguments and what it returned

vars == <<worldData, meshes, camera, velocity, canJump,
          moveForward, moveBackward, moveLeft, moveRight, active,
          attackCooldown, projectiles, playerHealth, heap, advanced,
          gameState, isMouseDown, isLocked, entities, bosses, zombies, treasures,
          machineGun, frameNo, call>>

combatVars == <<attackCooldown, projectiles, playerHealth, advanced>>
listVars == <<entities, bosses, zombies, treasures, machineGun>>
gameVars == <<gameState, isMouseDown, isLocked, listVars, frameNo>>

worldVars == <<worldData, meshes>>
bodyVars == <<camera, velocity, canJump>>
flagVars == <<moveForward, moveBackward, moveLeft, moveRight>>

(***************************************************************************)
(* Fixed point.                                                            *)
(***************************************************************************)
\* The fixed-point image of 1.0, which is also the edge of one block.
Unit == 10

\* The product of two fixed-point values.
FMul(a, b) == (a * b) \div Unit

\* A mutant of Floor: truncation toward zero (parseInt, x | 0) instead of Math.floor.
FloorTrunc(x) == IF x >= 0 THEN x \div Unit ELSE -((-x) \div Unit)

\* Math.floor of a fixed-point value, as an integer.
Floor(x) == x \div Unit

(***************************************************************************)
(* World: the voxel store.                                                 *)
(***************************************************************************)
\* The block types the world populator uses here (two of the four materials).
BlockTypes == {"grass", "stone"}

\* What Map.get returns for an absent key.
undefined == "undefined"

\* World.getBlockKey: the key of the cell a point lies in.  The source joins the
\* three floored coordinates with commas; the triple stands for that string.
getBlockKey(x, y, z) == <<Floor(x), Floor(y), Floor(z)>>

\* World.hasBlock on the store w.
hasBlock(w, x, y, z) == getBlockKey(x, y, z) \in DOMAIN w

\* World.getBlock on the store w.
getBlock(w, x, y, z) ==
    LET key == getBlockKey(x, y, z)
    IN  IF key \in DOMAIN w THEN w[key] ELSE undefined

\* Map.set(key, value).
MapSet(w, key, value) ==
    [k \in (DOMAIN w) \cup {key} |-> IF k = key THEN value ELSE w[k]]

\* Map.delete(key).
MapDelete(w, key) == [k \in (DOMAIN w) \ {key} |-> w[k]]

\* A mutant of addBlockData: the early return is missing, the last write wins.
addBlockOverwrite(w, x, y, z, blockType) ==
    MapSet(w, getBlockKey(x, y, z), blockType)

\* World.addBlock, the store after the call.
addBlockData(w, x, y, z, blockType) ==
    LET key == getBlockKey(x, y, z)
    IN  IF key \in DOMAIN w THEN w ELSE MapSet(w, key, blockType)

\* World.addBlock, the mesh keys after the call.
addBlockMeshes(w, m, x, y, z) ==
    LET key == getBlockKey(x, y, z)
    IN  IF key \in DOMAIN w THEN m ELSE m \cup {key}

\* A mutant of removeBlockData: the height is rounded up (Math.ceil) in the key.
removeBlockCeil(w, x, y, z) ==
    LET key == <<Floor(x), Floor(y + Unit - 1), Floor(z)>>
    IN  IF key \notin DOMAIN w THEN w ELSE MapDelete(w, key)

\* World.removeBlock, the store after the call.
removeBlockData(w, x, y, z) ==
    LET key == getBlockKey(x, y, z)
    IN  IF key \notin DOMAIN w THEN w ELSE MapDelete(w, key)

\* A mutant of removeBlockRet: the call always reports success.
removeBlockRetTrue(w, x, y, z) == TRUE

\* World.removeBlock, the value it returns.
removeBlockRet(w, x, y, z) == getBlockKey(x, y, z) \in DOMAIN w

\* World.removeBlock, the mesh keys after the call.
removeBlockMeshes(w, m, x, y, z) ==
    LET key == getBlockKey(x, y, z)
    IN  IF key \notin DOMAIN w THEN m ELSE m \ {key}

\* A mutant of checkCollision: only the eight corners of the box are tested.
checkCollisionCorners(w, x, y, z, width, height) ==
    LET halfWidth == width \div 2
    IN  \E px \in {x - halfWidth, x + halfWidth} : \E py \in {y, y + height} :
        \E pz \in {z - halfWidth, z + halfWidth} : hasBlock(w, px, py, pz)

\* A mutant of checkCollision: the upper bounds of the scan are exclusive.
checkCollisionExclusive(w, x, y, z, width, height) ==
    LET halfWidth == width \div 2
        minX == Floor(x - halfWidth)
        maxX == Floor(x + halfWidth)
        minY == Floor(y)
        maxY == Floor(y + height)
        minZ == Floor(z - halfWidth)
        maxZ == Floor(z + halfWidth)
    IN  \E bx \in minX..(maxX - 1) : \E by \in minY..(maxY - 1) : \E bz \in minZ..(maxZ - 1) :
            hasBlock(w, bx * Unit, by * Unit, bz * Unit)

\* World.checkCollision on the store w: the three nested loops return true at the
\* first stored cell of the range and false when there is none.
checkCollision(w, x, y, z, width, height) ==
    LET halfWidth == width \div 2
        minX == Floor(x - halfWidth)
        maxX == Floor(x + halfWidth)
        minY == Floor(y)
        maxY == Floor(y + height)
        minZ == Floor(z - halfWidth)
        maxZ == Floor(z + halfWidth)
    IN  \E bx \in minX..maxX : \E by \in minY..maxY : \E bz \in minZ..maxZ :
            hasBlock(w, bx * Unit, by * Unit, bz * Unit)

(***************************************************************************)
(* The state after construction.                                           *)
(***************************************************************************)
\* new Map(): the store before the world populator has called addBlock.
EmptyMap == [k \in {} |-> undefined]

\* Game constructor: camera.position.set(10, 25, 10).
SpawnPosition == [x |-> 10 * Unit, y |-> 25 * Unit, z |-> 10 * Unit]

\* Controls constructor: no key held, not grounded, velocity (0, 0, 0).
InitControls ==
    /\ velocity = [x |-> 0, y |-> 0, z |-> 0]
    /\ canJump = FALSE
    /\ moveForward = FALSE
    /\ moveBackward = FALSE
    /\ moveLeft = FALSE
    /\ moveRight = FALSE

\* CombatSystem constructor: maxPlayerHealth, attackRate (0.5 s), attackDamage,
\* attackRange and projectileSpeed.  Health and damage are counted in health points,
\* times and lengths in fixed point.
maxPlayerHealth == 100
attackRate == Unit \div 2
attackDamage == 25
attackRange == 30 * Unit
projectileSpeed == 20 * Unit

\* CombatSystem constructor: full health, no cooldown, no projectile.  advanced is
\* counted up to attackRate and starts there: no shot is closer than that.
InitCombat ==
    /\ attackCooldown = 0
    /\ projectiles = <<>>
    /\ playerHealth = maxPlayerHealth
    /\ advanced = attackRate

\* No Entity object has been constructed.
NoEntities == [id \in {} |-> undefined]

\* The identity that stands for null.
NoEntity == 0

\* The Game fields while only a component runs: the lists are empty and no frame has
\* run.
InitNoGame ==
    /\ gameState = "playing"
    /\ isMouseDown = FALSE
    /\ isLocked = FALSE
    /\ entities = <<>>
    /\ bosses = <<>>
    /\ zombies = <<>>
    /\ treasures = <<>>
    /\ machineGun = NoEntity
    /\ frameNo = 0

NoCall == [op |-> "none", args |-> <<>>, ret |-> undefined]

(***************************************************************************)
(* The store's interface, called by the world populator with any           *)
(* arguments.  Bounds of the model: the points it passes and the number of *)
(* blocks it stores.                                                       *)
(***************************************************************************)
\* The most blocks the populator stores at a time.
MaxBlocks == 2

\* The coordinates the populator passes: whole and fractional, negative and not.
XCoords == {-Unit, -(Unit \div 2), Unit \div 2}
YCoords == {Unit \div 2, Unit}
ZCoords == {-(Unit \div 2), Unit \div 2}

\* The box sizes checkCollision is asked about (the player's is 0.6 by 1.8).
Widths == {(6 * Unit) \div 10, 2 * Unit}
Heights == {Unit \div 2, (18 * Unit) \div 10}

InitWorld ==
    /\ worldData = EmptyMap
    /\ meshes = {}
    /\ camera = SpawnPosition
    /\ InitControls
    /\ active = FALSE
    /\ InitCombat
    /\ InitNoGame
    /\ heap = NoEntities
    /\ call = NoCall

AddBlock(x, y, z, blockType) ==
    /\ \/ hasBlock(worldData, x, y, z)
       \/ Cardinality(DOMAIN worldData) < MaxBlocks
    /\ worldData' = addBlockData(worldData, x, y, z, blockType)
    /\ meshes' = addBlockMeshes(worldData, meshes, x, y, z)
    /\ call' = [op |-> "addBlock", args |-> <<x, y, z, blockType>>, ret |-> undefined]
    /\ UNCHANGED <<bodyVars, flagVars, active, gameVars, combatVars, heap>>

RemoveBlock(x, y, z) ==
    /\ worldData' = removeBlockData(worldData, x, y, z)
    /\ meshes' = removeBlockMeshes(worldData, meshes, x, y, z)
    /\ call' = [op |-> "removeBlock", args |-> <<x, y, z>>,
                ret |-> removeBlockRet(worldData, x, y, z)]
    /\ UNCHANGED <<bodyVars, flagVars, active, gameVars, combatVars, heap>>

GetBlock(x, y, z) ==
    /\ call' = [op |-> "getBlock", args |-> <<x, y, z>>,
                ret |-> getBlock(worldData, x, y, z)]
    /\ UNCHANGED <<worldVars, bodyVars, flagVars, active, gameVars, combatVars, heap>>

HasBlock(x, y, z) ==
    /\ call' = [op |-> "hasBlock", args |-> <<x, y, z>>,
                ret |-> hasBlock(worldData, x, y, z)]
    /\ UNCHANGED <<worldVars, bodyVars, flagVars, active, gameVars, combatVars, heap>>

CheckCollision(x, y, z, width, height) ==
    /\ call' = [op |-> "checkCollision", args |-> <<x, y, z, width, height>>,
                ret |-> checkCollision(worldData, x, y, z, width, height)]
    /\ UNCHANGED <<worldVars, bodyVars, flagVars, active, gameVars, combatVars, heap>>

NextWorld ==
    \E x \in XCoords, y \in YCoords, z \in ZCoords :
        \/ \E blockType \in BlockTypes : AddBlock(x, y, z, blockType)
        \/ RemoveBlock(x, y, z)
        \/ GetBlock(x, y, z)
        \/ HasBlock(x, y, z)
        \/ \E width \in Widths, height \in Heights : CheckCollision(x, y, z, width, height)

SpecWorld == InitWorld /\ [][NextWorld]_vars

(***************************************************************************)
(* Controls: the player's body.                                            *)
(***************************************************************************)
\* Controls constructor: this.speed, jumpVelocity, gravity, playerHeight, playerWidth.
speed == 5 * Unit
jumpVelocity == 8 * Unit
gravity == 20 * Unit
playerHeight == (18 * Unit) \div 10
playerWidth == (6 * Unit) \div 10

\* Controls.update: this.direction before normalisation, from the four key flags.
direction(fwd, back, left, right) ==
    [x |-> (IF right THEN 1 ELSE 0) - (IF left THEN 1 ELSE 0),
     z |-> (IF fwd THEN 1 ELSE 0) - (IF back THEN 1 ELSE 0)]

\* Controls.update: moveDirection after normalisation.  It is forward * direction.z
\* + right * direction.x, normalised when its length is positive.  The camera's yaw
\* is free (onMouseMove), so for a non-zero direction the normalised vector is any
\* unit vector, or zero when the camera looks straight up or down; heading is the
\* one this frame's yaw gives.  For a zero direction it is zero.
moveDirection(dir, heading) ==
    IF dir.x = 0 /\ dir.z = 0 THEN [x |-> 0, z |-> 0] ELSE [x |-> heading[1], z |-> heading[2]]

\* Controls.update: velocity.y after "velocity.y -= gravity * delta".
applyGravity(vy, delta) == vy - FMul(gravity, delta)

\* A mutant of newPosition: the vertical move uses the velocity from before gravity.
newPositionStaleVelocity(pos, vy, move, delta) ==
    [x |-> pos.x + FMul(FMul(move.x, speed), delta),
     y |-> pos.y + FMul(vy + FMul(gravity, delta), delta),
     z |-> pos.z + FMul(FMul(move.z, speed), delta)]

\* Controls.update: newPosition, from the position, the velocity after gravity and
\* horizontalVelocity = moveDirection * speed.
newPosition(pos, vy, move, delta) ==
    [x |-> pos.x + FMul(FMul(move.x, speed), delta),
     y |-> pos.y + FMul(vy, delta),
     z |-> pos.z + FMul(FMul(move.z, speed), delta)]

\* Controls.update: the first test, of the candidate x at the current y and z.
freeX(w, pos, np) ==
    ~checkCollision(w, np.x, pos.y, pos.z, playerWidth, playerHeight)

\* A mutant of resolveX: the X move is made whatever the first test finds.
resolveXUntested(w, pos, np) == np.x

\* Controls.update: camera.position.x after the first test.
resolveX(w, pos, np) == IF freeX(w, pos, np) THEN np.x ELSE pos.x

\* Controls.update: the second test, of the candidate z at the x just resolved.
freeZ(w, pos, x, np) ==
    ~checkCollision(w, x, pos.y, np.z, playerWidth, playerHeight)

\* A mutant of resolveZ: the second test is made at the x from before the first test.
resolveZStaleX(w, pos, x, np) ==
    IF ~checkCollision(w, pos.x, pos.y, np.z, playerWidth, playerHeight) THEN np.z ELSE pos.z

\* Controls.update: camera.position.z after the second test.
resolveZ(w, pos, x, np) == IF freeZ(w, pos, x, np) THEN np.z ELSE pos.z

\* Controls.update: the third test, of the candidate y at the x and z just resolved.
freeY(w, x, z, np) ==
    ~checkCollision(w, x, np.y, z, playerWidth, playerHeight)

\* A mutant of resolveY: the body is snapped to the floor of the candidate y.
resolveYSnapCandidate(w, pos, x, z, np, vy, jump) ==
    IF freeY(w, x, z, np)
    THEN [y |-> np.y, vy |-> vy, canJump |-> FALSE, free |-> TRUE]
    ELSE IF vy < 0
         THEN [y |-> Floor(np.y) * Unit, vy |-> 0, canJump |-> TRUE, free |-> FALSE]
         ELSE [y |-> pos.y, vy |-> 0, canJump |-> jump, free |-> FALSE]

\* A mutant of resolveY: the vertical move is accepted only if the body is free at
\* every whole block on the way to the candidate y as well.
resolveYSwept(w, pos, x, z, np, vy, jump) ==
    LET lowest == IF np.y < pos.y THEN np.y ELSE pos.y
        blocks == (IF np.y < pos.y THEN pos.y - np.y ELSE np.y - pos.y) \div Unit
    IN  IF \A k \in 0..blocks :
               ~checkCollision(w, x, lowest + k * Unit, z, playerWidth, playerHeight)
        THEN [y |-> np.y, vy |-> vy, canJump |-> FALSE, free |-> TRUE]
        ELSE IF vy < 0
             THEN [y |-> Floor(pos.y) * Unit, vy |-> 0, canJump |-> TRUE, free |-> FALSE]
             ELSE [y |-> pos.y, vy |-> 0, canJump |-> jump, free |-> FALSE]

\* A mutant of resolveY: any rejected vertical move grounds the body.
resolveYGrounds(w, pos, x, z, np, vy, jump) ==
    IF freeY(w, x, z, np)
    THEN [y |-> np.y, vy |-> vy, canJump |-> FALSE, free |-> TRUE]
    ELSE IF vy < 0
         THEN [y |-> Floor(pos.y) * Unit, vy |-> 0, canJump |-> TRUE, free |-> FALSE]
         ELSE [y |-> pos.y, vy |-> 0, canJump |-> TRUE, free |-> FALSE]

\* Controls.update: camera.position.y, velocity.y and canJump after the third test;
\* vy is the velocity after gravity, free the outcome of the test.
resolveY(w, pos, x, z, np, vy, jump) ==
    IF freeY(w, x, z, np)
    THEN [y |-> np.y, vy |-> vy, canJump |-> FALSE, free |-> TRUE]
    ELSE IF vy < 0
         THEN [y |-> Floor(pos.y) * Unit, vy |-> 0, canJump |-> TRUE, free |-> FALSE]
         ELSE [y |-> pos.y, vy |-> 0, canJump |-> jump, free |-> FALSE]

(***************************************************************************)
(* Controls on a terrain: the frames and the input events that reach it.   *)
(* Bounds of the model: the terrain, the point the camera starts at, the   *)
(* frame times, the headings, the keys held at once and the region the     *)
(* body is followed in.                                                    *)
(***************************************************************************)
\* The terrain the populator left: a one-block floor, a pillar two blocks high
\* standing on it and a block overhanging it.
Terrain ==
    LET FloorCells == {<<x, 0, z>> : x \in -1..3, z \in -1..3}
        PillarCells == {<<2, y, 2>> : y \in 1..2}
        OverhangCells == {<<0, 3, 0>>}
    IN  [k \in FloorCells \cup PillarCells \cup OverhangCells |->
            IF k \in FloorCells THEN "stone" ELSE "grass"]

\* The camera position Controls is constructed with: above the floor, clear of it.
StartPosition == [x |-> (15 * Unit) \div 10, y |-> 3 * Unit, z |-> (15 * Unit) \div 10]

\* clock.getDelta(): 0, 0.2 s and 1 s.
Deltas == {0, (2 * Unit) \div 10, Unit}

\* The normalised moveDirection of a frame with a direction key held: unit vectors
\* that fixed point holds exactly, and zero (the camera looks straight up or down).
Headings ==
    {<<0, 0>>, <<Unit, 0>>, <<(8 * Unit) \div 10, (6 * Unit) \div 10>>,
     <<(6 * Unit) \div 10, -((8 * Unit) \div 10)>>,
     <<-((8 * Unit) \div 10), -((6 * Unit) \div 10)>>}

\* The most direction keys held at once.
MaxKeysHeld == 1

\* The body is followed while it is within Reach of the start point horizontally and
\* not below -Reach.
Reach == 8

InReach ==
    /\ camera.x - StartPosition.x \in -Reach..Reach
    /\ camera.z - StartPosition.z \in -Reach..Reach
    /\ camera.y >= -Reach

KeysHeld ==
    Cardinality({i \in 1..4 : <<moveForward, moveBackward, moveLeft, moveRight>>[i]})

\* Controls as constructed, on a device with a keyboard and a touch screen, so that
\* every listener is installed.  Without a touch screen the behaviours are those in
\* which the jump button is never touched.  The touch joystick, which writes the same
\* four key flags as the direction keys, is left to the keys.
InitOnTerrain ==
    /\ worldData = Terrain
    /\ meshes = DOMAIN Terrain
    /\ camera = StartPosition
    /\ InitControls
    /\ active = TRUE
    /\ InitCombat
    /\ InitNoGame
    /\ heap = NoEntities
    /\ call = NoCall

\* Controls.update(delta), in a frame whose camera yaw gives heading.  call keeps
\* the frame time, moveDirection and which of the three tests found the candidate
\* free.  (Each intermediate value is bound once, in the order the code computes it.)
Update(delta, heading) ==
    \E vy \in {applyGravity(velocity.y, delta)} :
    \E move \in {moveDirection(direction(moveForward, moveBackward, moveLeft, moveRight),
                               heading)} :
    \E np \in {newPosition(camera, vy, move, delta)} :
    \E x \in {resolveX(worldData, camera, np)} :
    \E z \in {resolveZ(worldData, camera, x, np)} :
    \E r \in {resolveY(worldData, camera, x, z, np, vy, canJump)} :
        /\ InReach
        /\ camera' = [x |-> x, y |-> r.y, z |-> z]
        /\ velocity' = [velocity EXCEPT !.y = r.vy]
        /\ canJump' = r.canJump
        /\ call' = [op |-> "update", args |-> <<delta, move>>,
                    ret |-> <<freeX(worldData, camera, np), freeZ(worldData, camera, x, np),
                              r.free>>]
        /\ UNCHANGED <<worldVars, flagVars, active, gameVars, combatVars, heap>>

\* A mutant of jump: the request is honoured whether or not the body is grounded.
jumpUnguarded(vy, jumpAllowed) == jumpVelocity

\* The jump request of onKeyDown('Space') and of the jump button.
jump(vy, jumpAllowed) == IF jumpAllowed THEN jumpVelocity ELSE vy

\* Controls.onKeyDown(event) for event.code = code.
OnKeyDown(code) ==
    /\ code \in {"KeyW", "KeyA", "KeyS", "KeyD"}
       => \/ KeysHeld < MaxKeysHeld
          \/ (code = "KeyW" /\ moveForward) \/ (code = "KeyA" /\ moveLeft)
          \/ (code = "KeyS" /\ moveBackward) \/ (code = "KeyD" /\ moveRight)
    /\ moveForward' = IF code = "KeyW" THEN TRUE ELSE moveForward
    /\ moveLeft' = IF code = "KeyA" THEN TRUE ELSE moveLeft
    /\ moveBackward' = IF code = "KeyS" THEN TRUE ELSE moveBackward
    /\ moveRight' = IF code = "KeyD" THEN TRUE ELSE moveRight
    /\ velocity' = IF code = "Space"
                   THEN [velocity EXCEPT !.y = jump(velocity.y, canJump)]
                   ELSE velocity
    /\ UNCHANGED <<worldVars, camera, canJump, active, gameVars, call, combatVars, heap>>

\* Controls.onKeyUp(event) for event.code = code.
OnKeyUp(code) ==
    /\ moveForward' = IF code = "KeyW" THEN FALSE ELSE moveForward
    /\ moveLeft' = IF code = "KeyA" THEN FALSE ELSE moveLeft
    /\ moveBackward' = IF code = "KeyS" THEN FALSE ELSE moveBackward
    /\ moveRight' = IF code = "KeyD" THEN FALSE ELSE moveRight
    /\ UNCHANGED <<worldVars, bodyVars, active, gameVars, call, combatVars, heap>>

\* MobileControls: the touchstart listener of btnJump, installed when active.
BtnJumpTouchStart ==
    /\ active
    /\ velocity' = [velocity EXCEPT !.y = jump(velocity.y, canJump)]
    /\ UNCHANGED <<worldVars, camera, canJump, flagVars, active, gameVars, call, combatVars, heap>>

\* event.code of the keys pressed: the five the switch names and one it ignores.
KeyCodes == {"KeyW", "KeyA", "KeyS", "KeyD", "Space", "KeyE"}

NextControls ==
    \/ \E delta \in Deltas, heading \in Headings : Update(delta, heading)
    \/ \E code \in KeyCodes : OnKeyDown(code)
    \/ \E code \in KeyCodes : OnKeyUp(code)
    \/ BtnJumpTouchStart

SpecControls == InitOnTerrain /\ [][NextControls]_vars

(***************************************************************************)
(* Entity: the damageable objects.                                         *)
(***************************************************************************)
\* The origin, new THREE.Vector3().
Origin == [x |-> 0, y |-> 0, z |-> 0]

\* Infinity, the health of a TreasureBox and of a MachineGun: a number no damage
\* brings down to 0.
Infinity == 1000000

\* The Zombie constructor: health = maxHealth = 50, alive, idle with stateTimer 0.
\* onDeaths counts the runs of onDeath, which the program does not store.
Zombie(position) ==
    [kind |-> "Zombie", position |-> position, health |-> 50, maxHealth |-> 50,
     alive |-> TRUE, onDeaths |-> 0,
     attackCooldown |-> 0, aggroRange |-> 15 * Unit,
     state |-> "idle", stateTimer |-> 0,
     patrolCenter |-> position, wanderTarget |-> Origin,
     walkSpeed |-> (15 * Unit) \div 10, runSpeed |-> (35 * Unit) \div 10]

\* The FireDragon constructor: health = maxHealth = 200, alive, not aggressive.
FireDragon(position) ==
    [kind |-> "FireDragon", position |-> position, health |-> 200, maxHealth |-> 200,
     alive |-> TRUE, onDeaths |-> 0,
     speed |-> 3 * Unit, attackCooldown |-> 0, attackRate |-> 2 * Unit,
     patrolCenter |-> position, patrolRadius |-> 15 * Unit, patrolAngle |-> 0,
     isAggressive |-> FALSE, aggroRange |-> 20 * Unit, fireballs |-> <<>>]

\* The FireJellyfish constructor.  lastShockTime is undefined until the first shock;
\* 0, which the program treats the same way (it is falsy), stands for it.
FireJellyfish(position) ==
    [kind |-> "FireJellyfish", position |-> position, health |-> 200, maxHealth |-> 200,
     alive |-> TRUE, onDeaths |-> 0,
     speed |-> 2 * Unit, attackCooldown |-> 0, attackRate |-> 3 * Unit,
     patrolCenter |-> position, bouncePhase |-> 0,
     isAggressive |-> FALSE, aggroRange |-> 15 * Unit, lastShockTime |-> 0]

\* The TreasureBox constructor: locked, not opened.
TreasureBox(position) ==
    [kind |-> "TreasureBox", position |-> position, health |-> Infinity, maxHealth |-> 100,
     alive |-> TRUE, onDeaths |-> 0, opened |-> FALSE, locked |-> TRUE]

\* The MachineGun constructor.
MachineGun(position) ==
    [kind |-> "MachineGun", position |-> position, health |-> Infinity, maxHealth |-> 100,
     alive |-> TRUE, onDeaths |-> 0, bobPhase |-> 0]

\* A mutant of takeDamage: the health is not raised back to 0.
takeDamageUnclamped(e, amount) ==
    LET health == e.health - amount
    IN  IF health <= 0
        THEN [e EXCEPT !.health = health, !.alive = FALSE, !.onDeaths = @ + 1]
        ELSE [e EXCEPT !.health = health]

\* Entity.takeDamage(amount): the entity after the call.
takeDamage(e, amount) ==
    LET health == e.health - amount
    IN  IF health <= 0
        THEN [e EXCEPT !.health = 0, !.alive = FALSE, !.onDeaths = @ + 1]
        ELSE [e EXCEPT !.health = health]

(***************************************************************************)
(* CombatSystem.                                                           *)
(***************************************************************************)
\* What shootProjectile returns when it does not fire.  A value returned is written
\* as a sequence, <<p>> for the projectile p, so null is the empty one.
null == <<>>

\* Vector3.add, Vector3.multiplyScalar and the square of Vector3.distanceTo.
VAdd(a, b) == [x |-> a.x + b.x, y |-> a.y + b.y, z |-> a.z + b.z]
VScale(a, k) == [x |-> FMul(a.x, k), y |-> FMul(a.y, k), z |-> FMul(a.z, k)]
DistanceSquared(a, b) ==
    (a.x - b.x) * (a.x - b.x) + (a.y - b.y) * (a.y - b.y) + (a.z - b.z) * (a.z - b.z)

\* A mutant of canAttack: the comparison is strict.
canAttackStrict(cooldown) == cooldown < 0

\* CombatSystem.canAttack.
canAttack(cooldown) == cooldown <= 0

\* A mutant of newProjectile: the direction is not scaled by projectileSpeed.
newProjectileUnscaled(cam, forward) ==
    [position |-> VAdd(cam, VScale(forward, 2 * Unit)),
     velocity |-> forward,
     damage |-> attackDamage]

\* CombatSystem.shootProjectile: the projectile it creates, two units ahead of the
\* camera along forward, the camera's world direction (a unit vector).
newProjectile(cam, forward) ==
    [position |-> VAdd(cam, VScale(forward, 2 * Unit)),
     velocity |-> VScale(forward, projectileSpeed),
     damage |-> attackDamage]

\* CombatSystem.shootProjectile: the cooldown, the projectiles and the value returned.
shootCooldown(cooldown) == IF canAttack(cooldown) THEN attackRate ELSE cooldown
shootProjectiles(ps, cooldown, cam, forward) ==
    IF canAttack(cooldown) THEN Append(ps, newProjectile(cam, forward)) ELSE ps
shootRet(cooldown, cam, forward) ==
    IF canAttack(cooldown) THEN <<newProjectile(cam, forward)>> ELSE null

\* CombatSystem.update: the cooldown after Math.max(0, attackCooldown - delta).
cooldownAfter(cooldown, delta) == IF cooldown - delta > 0 THEN cooldown - delta ELSE 0

\* A mutant of moveProjectile: the velocity is not added.
moveProjectileStill(p, delta) == p

\* CombatSystem.update: a projectile after position.add(velocity * delta).
moveProjectile(p, delta) == [p EXCEPT !.position = VAdd(@, VScale(p.velocity, delta))]

\* CombatSystem.update: the filter drops a moved projectile whose distance to the
\* camera's position exceeds attackRange * 2.
tooFar(p, cam) == DistanceSquared(p.position, cam) > (2 * attackRange) * (2 * attackRange)

\* CombatSystem.update: the projectiles after the filter.
advanceProjectiles(ps, cam, delta) ==
    SelectSeq([i \in 1..Len(ps) |-> moveProjectile(ps[i], delta)],
              LAMBDA p : ~tooFar(p, cam))

\* A mutant of hitTest: the alive flag is not consulted.
hitTestDead(p, e) == DistanceSquared(p.position, e.position) < (2 * Unit) * (2 * Unit)

\* A mutant of hitTest: a distance of exactly 2 counts as a hit.
hitTestInclusive(p, e) ==
    e.alive /\ DistanceSquared(p.position, e.position) <= (2 * Unit) * (2 * Unit)

\* CombatSystem.checkProjectileHits: the test of one entity in the inner loop.
hitTest(p, e) ==
    e.alive /\ DistanceSquared(p.position, e.position) < (2 * Unit) * (2 * Unit)

\* CombatSystem.checkProjectileHits: the inner loop from the i-th entry of the list:
\* the index of the first entry the projectile hits, 0 when the loop ends without one.
RECURSIVE firstTargetFrom(_, _, _, _)
firstTargetFrom(p, list, h, i) ==
    IF i > Len(list) THEN 0
    ELSE IF hitTest(p, h[list[i]]) THEN i
    ELSE firstTargetFrom(p, list, h, i + 1)

\* A mutant of firstTarget: the nearest entry that passes the test is chosen.
nearestTarget(p, list, h) ==
    IF \A i \in 1..Len(list) : ~hitTest(p, h[list[i]]) THEN 0
    ELSE CHOOSE i \in 1..Len(list) :
           /\ hitTest(p, h[list[i]])
           /\ \A j \in 1..Len(list) :
                hitTest(p, h[list[j]])
                => \/ DistanceSquared(p.position, h[list[i]].position)
                        < DistanceSquared(p.position, h[list[j]].position)
                   \/ /\ DistanceSquared(p.position, h[list[i]].position)
                           = DistanceSquared(p.position, h[list[j]].position)
                      /\ i <= j

\* CombatSystem.checkProjectileHits: the inner loop for one projectile.
firstTarget(p, list, h) == firstTargetFrom(p, list, h, 1)

\* CombatSystem.checkProjectileHits: the filter from the i-th projectile on.  acc holds
\* the projectiles kept so far, the entities as damaged so far, the hit records and
\* the places of the hit effects (createHitEffect(proj.position)).
RECURSIVE checkProjectileHitsFrom(_, _, _, _)
checkProjectileHitsFrom(ps, list, acc, i) ==
    IF i > Len(ps) THEN acc
    ELSE LET t == firstTarget(ps[i], list, acc.heap)
         IN  IF t = 0
             THEN checkProjectileHitsFrom(ps, list,
                      [acc EXCEPT !.projectiles = Append(@, ps[i])], i + 1)
             ELSE checkProjectileHitsFrom(ps, list,
                      [projectiles |-> acc.projectiles,
                       heap |-> [acc.heap EXCEPT ![list[t]] = takeDamage(@, ps[i].damage)],
                       hits |-> Append(acc.hits,
                                       [entity |-> list[t], damage |-> ps[i].damage]),
                       effects |-> Append(acc.effects, ps[i].position)],
                      i + 1)

\* CombatSystem.checkProjectileHits(list) on the projectiles ps and the entities h.
checkProjectileHits(ps, list, h) ==
    checkProjectileHitsFrom(ps, list,
        [projectiles |-> <<>>, heap |-> h, hits |-> <<>>, effects |-> <<>>], 1)

\* A mutant of damagePlayer: Math.max(0, ...) is missing.
damagePlayerUnclamped(health, amount) == health - amount

\* CombatSystem.damagePlayer, healPlayer, resetPlayer and isPlayerAlive.
damagePlayer(health, amount) == IF health - amount > 0 THEN health - amount ELSE 0
healPlayer(health, amount) ==
    IF health + amount < maxPlayerHealth THEN health + amount ELSE maxPlayerHealth
resetPlayer(health) == maxPlayerHealth
isPlayerAlive(health) == health > 0

(***************************************************************************)
(* The combat interface, called with any arguments by the frame loop and   *)
(* the input listeners, while Controls moves the camera.  Bounds of the    *)
(* model: the targets, the places of the camera, the directions it looks   *)
(* in, the frame times and the number of live projectiles.                 *)
(***************************************************************************)
\* The most projectiles alive at a time.
MaxProjectiles == 2

\* The places Controls has moved the camera to: the spawn point and 9 units along x.
CameraSpots == {SpawnPosition, [SpawnPosition EXCEPT !.x = @ + 9 * Unit]}

\* camera.getWorldDirection: along x, and down and ahead.
Forwards ==
    {[x |-> Unit, y |-> 0, z |-> 0],
     [x |-> 0, y |-> -((6 * Unit) \div 10), z |-> (8 * Unit) \div 10]}

\* clock.getDelta(): 0.2 s and 0.5 s.
CombatDeltas == {(2 * Unit) \div 10, Unit \div 2}

\* The enemies: two zombies 1.5 apart on the line the camera looks along from the
\* spawn point.
Targets ==
    (1 :> Zombie([SpawnPosition EXCEPT !.x = @ + 12 * Unit]))
    @@ (2 :> Zombie([SpawnPosition EXCEPT !.x = @ + (135 * Unit) \div 10]))

InitCombatSystem ==
    /\ worldData = EmptyMap
    /\ meshes = {}
    /\ camera = SpawnPosition
    /\ InitControls
    /\ active = FALSE
    /\ InitCombat
    /\ InitNoGame
    /\ heap = Targets
    /\ call = NoCall

\* CombatSystem.shootProjectile() with the camera looking along forward.
ShootProjectile(forward) ==
    /\ canAttack(attackCooldown) => Len(projectiles) < MaxProjectiles
    /\ attackCooldown' = shootCooldown(attackCooldown)
    /\ projectiles' = shootProjectiles(projectiles, attackCooldown, camera, forward)
    /\ advanced' = IF canAttack(attackCooldown) THEN 0 ELSE advanced
    /\ call' = [op |-> "shootProjectile", args |-> <<forward>>,
                ret |-> shootRet(attackCooldown, camera, forward)]
    /\ UNCHANGED <<worldVars, bodyVars, flagVars, active, gameVars, playerHealth, heap>>

\* CombatSystem.update(delta).  advanced adds up the frame times since the last shot
\* fired, up to attackRate.
CombatUpdate(delta) ==
    /\ attackCooldown' = cooldownAfter(attackCooldown, delta)
    /\ projectiles' = advanceProjectiles(projectiles, camera, delta)
    /\ advanced' = IF advanced + delta < attackRate THEN advanced + delta ELSE attackRate
    /\ call' = [op |-> "update", args |-> <<delta>>, ret |-> undefined]
    /\ UNCHANGED <<worldVars, bodyVars, flagVars, active, gameVars, playerHealth, heap>>

\* CombatSystem.checkProjectileHits(list).
CheckProjectileHits(list) ==
    \E r \in {checkProjectileHits(projectiles, list, heap)} :
        /\ projectiles' = r.projectiles
        /\ heap' = r.heap
        /\ call' = [op |-> "checkProjectileHits", args |-> <<list>>, ret |-> r.hits,
                    effects |-> r.effects]
        /\ UNCHANGED <<worldVars, bodyVars, flagVars, active, gameVars,
                       attackCooldown, playerHealth, advanced>>

\* Controls.update has moved the camera to another place.
MoveCamera(spot) ==
    /\ camera' = spot
    /\ UNCHANGED <<worldVars, velocity, canJump, flagVars, active, gameVars, combatVars, heap, call>>

\* checkProjectileHits is called with the enemies in either order, and with the first
\* alone.
NextCombat ==
    \/ \E forward \in Forwards : ShootProjectile(forward)
    \/ \E delta \in CombatDeltas : CombatUpdate(delta)
    \/ \E list \in {<<1>>, <<1, 2>>, <<2, 1>>} : CheckProjectileHits(list)
    \/ \E spot \in CameraSpots : MoveCamera(spot)

SpecCombat == InitCombatSystem /\ [][NextCombat]_vars

(***************************************************************************)
(* The flight of the projectiles.  The combat interface as above, with two *)
(* fields added to each projectile when it is fired, which the code does   *)
(* not keep and no operator reads: id, to tell it from the others while it *)
(* is live, and origin, the point it was fired from.                       *)
(***************************************************************************)
\* The projectile p with the fields of the bookkeeping: the least id that no
\* projectile of ps has, and the position p was created at.
tagged(p, ps) ==
    LET used == {ps[i].id : i \in 1..Len(ps)}
        id == CHOOSE i \in 1..(Len(ps) + 1) : i \notin used /\ \A j \in 1..(i - 1) : j \in used
    IN  [position |-> p.position, velocity |-> p.velocity, damage |-> p.damage,
         id |-> id, origin |-> p.position]

\* CombatSystem.shootProjectile() with the camera looking along forward.
Fire(forward) ==
    /\ canAttack(attackCooldown) => Len(projectiles) < MaxProjectiles
    /\ attackCooldown' = shootCooldown(attackCooldown)
    /\ projectiles' =
           IF canAttack(attackCooldown)
           THEN Append(projectiles, tagged(newProjectile(camera, forward), projectiles))
           ELSE projectiles
    /\ advanced' = IF canAttack(attackCooldown) THEN 0 ELSE advanced
    /\ call' = [op |-> "shootProjectile", args |-> <<forward>>,
                ret |-> shootRet(attackCooldown, camera, forward)]
    /\ UNCHANGED <<worldVars, bodyVars, flagVars, active, gameVars, playerHealth, heap>>

NextRange ==
    \/ \E forward \in Forwards : Fire(forward)
    \/ \E delta \in CombatDeltas : CombatUpdate(delta)
    \/ CheckProjectileHits(<<1, 2>>)
    \/ \E spot \in CameraSpots : MoveCamera(spot)

SpecRange == InitCombatSystem /\ [][NextRange]_vars

\* The frames keep coming: requestAnimationFrame calls animate again and again, and
\* every frame of state 'playing' calls CombatSystem.update with the time since the
\* frame before, which is positive.
SpecRangeFair == SpecRange /\ WF_vars(\E delta \in CombatDeltas : CombatUpdate(delta))

(***************************************************************************)
(* Entity.takeDamage, called with any positive amount on any entity, dead  *)
(* or alive.  Bounds of the model: the entities, the amounts and the runs  *)
(* of onDeath that are counted.                                            *)
(***************************************************************************)
\* takeDamage is followed until an entity's onDeath has run this many times.
MaxOnDeaths == 2

\* The amounts: less than any health, a projectile's, a zombie's health, a boss's.
Amounts == {10, 25, 50, 200}

\* The entities as constructed: a zombie, and the dragon where spawnEntities puts it.
Damageables ==
    (1 :> Zombie([SpawnPosition EXCEPT !.x = @ + 11 * Unit]))
    @@ (2 :> FireDragon([x |-> 30 * Unit, y |-> 15 * Unit, z |-> 30 * Unit]))

InitEntities ==
    /\ worldData = EmptyMap
    /\ meshes = {}
    /\ camera = SpawnPosition
    /\ InitControls
    /\ active = FALSE
    /\ InitCombat
    /\ InitNoGame
    /\ heap = Damageables
    /\ call = NoCall

\* heap[id].takeDamage(amount).
TakeDamage(id, amount) ==
    /\ heap[id].onDeaths < MaxOnDeaths
    /\ heap' = [heap EXCEPT ![id] = takeDamage(@, amount)]
    /\ call' = [op |-> "takeDamage", args |-> <<id, amount>>, ret |-> undefined]
    /\ UNCHANGED <<worldVars, bodyVars, flagVars, active, gameVars, combatVars>>

NextEntities == \E id \in DOMAIN heap, amount \in Amounts : TakeDamage(id, amount)

SpecEntities == InitEntities /\ [][NextEntities]_vars

(***************************************************************************)
(* The player's health, changed by any calls with non-negative amounts.    *)
(* call keeps the health the call found.                                   *)
(***************************************************************************)
\* The amounts: none, a shock's, a fireball's, a zombie's blow, the whole health.
PlayerAmounts == {0, 10, 15, 20, maxPlayerHealth}

DamagePlayer(amount) ==
    /\ playerHealth' = damagePlayer(playerHealth, amount)
    /\ call' = [op |-> "damagePlayer", args |-> <<amount>>, ret |-> undefined,
                before |-> playerHealth]
    /\ UNCHANGED <<worldVars, bodyVars, flagVars, active, gameVars,
                   attackCooldown, projectiles, advanced, heap>>

HealPlayer(amount) ==
    /\ playerHealth' = healPlayer(playerHealth, amount)
    /\ call' = [op |-> "healPlayer", args |-> <<amount>>, ret |-> undefined,
                before |-> playerHealth]
    /\ UNCHANGED <<worldVars, bodyVars, flagVars, active, gameVars,
                   attackCooldown, projectiles, advanced, heap>>

ResetPlayer ==
    /\ playerHealth' = resetPlayer(playerHealth)
    /\ call' = [op |-> "resetPlayer", args |-> <<>>, ret |-> undefined]
    /\ UNCHANGED <<worldVars, bodyVars, flagVars, active, gameVars,
                   attackCooldown, projectiles, advanced, heap>>

IsPlayerAlive ==
    /\ call' = [op |-> "isPlayerAlive", args |-> <<>>, ret |-> isPlayerAlive(playerHealth)]
    /\ UNCHANGED <<worldVars, bodyVars, flagVars, active, gameVars, combatVars, heap>>

NextPlayer ==
    \/ \E amount \in PlayerAmounts : DamagePlayer(amount)
    \/ \E amount \in PlayerAmounts : HealPlayer(amount)
    \/ ResetPlayer
    \/ IsPlayerAlive

SpecPlayer == InitEntities /\ [][NextPlayer]_vars

(***************************************************************************)
(* Arithmetic of the entities: square roots, unit vectors, sine and cosine *)
(* in fixed point.                                                         *)
(***************************************************************************)
\* a / b rounded to the nearest integer, for b > 0.
RDiv(a, b) == (2 * a + b) \div (2 * b)

\* The integer square root of n, between lo and hi, by bisection.
RECURSIVE ISqrtIn(_, _, _)
ISqrtIn(n, lo, hi) ==
    IF lo >= hi THEN lo
    ELSE LET mid == (lo + hi + 1) \div 2
         IN  IF mid * mid <= n THEN ISqrtIn(n, mid, hi) ELSE ISqrtIn(n, lo, mid - 1)

\* Math.sqrt of a sum of squares of fixed-point values, as a fixed-point value.  The
\* root is searched for below 2^15, so that no square leaves TLC's 32-bit integers.
ISqrt(n) == ISqrtIn(n, 0, IF n < 32767 THEN n ELSE 32767)

\* Vector3.subVectors, Vector3.length and Vector3.normalize.  normalize divides by
\* "length() || 1", so the zero vector stays the zero vector.
VSub(a, b) == [x |-> a.x - b.x, y |-> a.y - b.y, z |-> a.z - b.z]
VLength(v) == ISqrt(v.x * v.x + v.y * v.y + v.z * v.z)
normalize(v) ==
    LET len == VLength(v)
    IN  IF len = 0 THEN v
        ELSE [x |-> RDiv(v.x * Unit, len), y |-> RDiv(v.y * Unit, len),
              z |-> RDiv(v.z * Unit, len)]

\* "direction.subVectors(to, from); direction.y = 0; direction.normalize()": the
\* horizontal unit vector from one point towards another.
horizontalDirection(from, to) == normalize([VSub(to, from) EXCEPT !.y = 0])

\* Math.PI and Math.sin, Math.cos in fixed point.  The sine of an angle between 0
\* and pi is Bhaskara's quotient 16 a (pi - a) / (5 pi^2 - 4 a (pi - a)), which is
\* within 0.002 of the sine; the other angles are reduced to that range.
Pi == (314 * Unit) \div 100
Sin(a) ==
    LET r == a % (2 * Pi)
        h == IF r <= Pi THEN r ELSE r - Pi
        s == RDiv(16 * h * (Pi - h) * Unit, 5 * Pi * Pi - 4 * h * (Pi - h))
    IN  IF r <= Pi THEN s ELSE -s
Cos(a) == Sin(a + Pi \div 2)

(***************************************************************************)
(* The entities' update(delta, playerPosition).                            *)
(***************************************************************************)
\* "Math.random() < percent / 100" for the value r that Math.random() returned.
chance(r, percent) == 100 * r < percent * Unit

\* A mutant of closerThan: a distance equal to the range counts.
closerThanOrAt(a, b, range) == DistanceSquared(a, b) <= range * range

\* "distanceTo(position) < range" and "> range", on the squares.
closerThan(a, b, range) == DistanceSquared(a, b) < range * range
fartherThan(a, b, range) == DistanceSquared(a, b) > range * range

\* Zombie.update, case 'idle'.  rnd holds what the calls of Math.random() return, in
\* the order the code makes them: the timer, the angle, the distance, the spotting.
zombieIdle(e, timer, near, rnd) ==
    LET angle == FMul(rnd[2], 2 * Pi)
        dist == FMul(rnd[3], 5 * Unit) + 2 * Unit
        wandering ==
            IF timer <= 0
            THEN [e EXCEPT !.state = "wander",
                           !.stateTimer = FMul(rnd[1], 3 * Unit) + 2 * Unit,
                           !.wanderTarget =
                               [x |-> e.position.x + FMul(Cos(angle), dist),
                                y |-> e.position.y,
                                z |-> e.position.z + FMul(Sin(angle), dist)]]
            ELSE [e EXCEPT !.stateTimer = timer]
    IN  IF near /\ chance(rnd[4], 2) THEN [wandering EXCEPT !.state = "chase"]
        ELSE wandering

\* A mutant of zombieWander: the dwell ends below 0, not at 0.
zombieWanderLate(e, timer, near, delta, rnd) ==
    LET toTarget == [VSub(e.wanderTarget, e.position) EXCEPT !.y = 0]
        moved ==
            IF timer < 0
            THEN [e EXCEPT !.state = "idle", !.stateTimer = FMul(rnd[1], 2 * Unit) + Unit]
            ELSE IF 10 * VLength(toTarget) > Unit
                 THEN [e EXCEPT !.stateTimer = timer,
                                !.position = VAdd(@, VScale(normalize(toTarget),
                                                            FMul(e.walkSpeed, delta)))]
                 ELSE [e EXCEPT !.stateTimer = timer, !.state = "idle"]
    IN  IF near /\ chance(rnd[4], 5) THEN [moved EXCEPT !.state = "chase"] ELSE moved

\* Zombie.update, case 'wander'.
zombieWander(e, timer, near, delta, rnd) ==
    LET toTarget == [VSub(e.wanderTarget, e.position) EXCEPT !.y = 0]
        moved ==
            IF timer <= 0
            THEN [e EXCEPT !.state = "idle", !.stateTimer = FMul(rnd[1], 2 * Unit) + Unit]
            ELSE IF 10 * VLength(toTarget) > Unit
                 THEN [e EXCEPT !.stateTimer = timer,
                                !.position = VAdd(@, VScale(normalize(toTarget),
                                                            FMul(e.walkSpeed, delta)))]
                 ELSE [e EXCEPT !.stateTimer = timer, !.state = "idle"]
    IN  IF near /\ chance(rnd[4], 5) THEN [moved EXCEPT !.state = "chase"] ELSE moved

\* A mutant of zombieChase: the player is lost beyond aggroRange, not 1.5 times it.
zombieChaseNoBand(e, timer, delta, playerPosition) ==
    IF fartherThan(e.position, playerPosition, e.aggroRange)
    THEN [e EXCEPT !.state = "idle", !.stateTimer = 2 * Unit]
    ELSE [e EXCEPT !.stateTimer = timer,
                   !.position = VAdd(@, VScale(horizontalDirection(e.position, playerPosition),
                                               FMul(e.runSpeed, delta)))]

\* Zombie.update, case 'chase'.
zombieChase(e, timer, delta, playerPosition) ==
    IF fartherThan(e.position, playerPosition, (15 * e.aggroRange) \div 10)
    THEN [e EXCEPT !.state = "idle", !.stateTimer = 2 * Unit]
    ELSE [e EXCEPT !.stateTimer = timer,
                   !.position = VAdd(@, VScale(horizontalDirection(e.position, playerPosition),
                                               FMul(e.runSpeed, delta)))]

\* Zombie.update(delta, playerPosition): the zombie after the call.
zombieUpdate(e, delta, playerPosition, rnd) ==
    IF ~e.alive THEN e
    ELSE LET near == closerThan(e.position, playerPosition, e.aggroRange)
             timer == e.stateTimer - delta
             after == CASE e.state = "idle" -> zombieIdle(e, timer, near, rnd)
                        [] e.state = "wander" -> zombieWander(e, timer, near, delta, rnd)
                        [] e.state = "chase" -> zombieChase(e, timer, delta, playerPosition)
         IN  [after EXCEPT !.attackCooldown = @ - delta]

\* FireDragon.shootFireball(targetPosition): the fireball, at the dragon's position.
fireball(position, targetPosition) ==
    [position |-> position,
     velocity |-> VScale(normalize(VSub(targetPosition, position)), 10 * Unit),
     damage |-> 20]

\* FireDragon.update(delta, playerPosition): the dragon after the call.  The distance
\* to the player is the one measured before the dragon moves; the dragon chases or
\* patrols, shoots from its new position, and the filter moves each fireball, the new
\* one too, and drops it when it is more than 30 from the dragon.
dragonUpdate(e, delta, playerPosition) ==
    IF ~e.alive THEN e
    ELSE LET aggressive ==
                 e.isAggressive \/ closerThan(e.position, playerPosition, e.aggroRange)
             angle == IF aggressive THEN e.patrolAngle ELSE e.patrolAngle + delta \div 2
             position ==
                 IF aggressive
                 THEN [VAdd(e.position,
                            VScale(horizontalDirection(e.position, playerPosition),
                                   FMul(e.speed, delta)))
                         EXCEPT !.y = playerPosition.y + 5 * Unit]
                 ELSE [x |-> e.patrolCenter.x + FMul(Cos(angle), e.patrolRadius),
                       y |-> e.patrolCenter.y + 8 * Unit + FMul(Sin(2 * angle), 2 * Unit),
                       z |-> e.patrolCenter.z + FMul(Sin(angle), e.patrolRadius)]
             cooldown == e.attackCooldown - delta
             shoots == /\ aggressive
                       /\ cooldown <= 0
                       /\ closerThan(e.position, playerPosition, 15 * Unit)
             balls == IF shoots THEN Append(e.fireballs, fireball(position, playerPosition))
                      ELSE e.fireballs
         IN  [e EXCEPT !.isAggressive = aggressive,
                       !.patrolAngle = angle,
                       !.position = position,
                       !.attackCooldown = IF shoots THEN e.attackRate ELSE cooldown,
                       !.fireballs =
                           SelectSeq([i \in 1..Len(balls) |->
                                         [balls[i] EXCEPT !.position =
                                             VAdd(@, VScale(balls[i].velocity, delta))]],
                                     LAMBDA f : ~fartherThan(f.position, position, 30 * Unit))]

\* A jellyfish that shocks whatever the distance to the player.
jellyfishUpdateAnyRange(e, delta, playerPosition, now) ==
    IF ~e.alive THEN e
    ELSE LET aggressive ==
                 e.isAggressive \/ closerThan(e.position, playerPosition, e.aggroRange)
             phase == e.bouncePhase + 3 * delta
             bounce == Sin(phase) \div 2
             moved == IF aggressive
                      THEN VAdd(e.position,
                                VScale(horizontalDirection(e.position, playerPosition),
                                       FMul(e.speed, delta)))
                      ELSE e.position
             cooldown == e.attackCooldown - delta
             shocks == /\ aggressive
                       /\ cooldown <= 0
         IN  [e EXCEPT !.isAggressive = aggressive,
                       !.bouncePhase = phase,
                       !.position = [moved EXCEPT !.y = e.patrolCenter.y + 3 * Unit + bounce],
                       !.attackCooldown = IF shocks THEN e.attackRate ELSE cooldown,
                       !.lastShockTime = IF shocks THEN now ELSE @]

\* FireJellyfish.update(delta, playerPosition): the jellyfish after the call; now is
\* what Date.now() returns in electricShock.
jellyfishUpdate(e, delta, playerPosition, now) ==
    IF ~e.alive THEN e
    ELSE LET aggressive ==
                 e.isAggressive \/ closerThan(e.position, playerPosition, e.aggroRange)
             phase == e.bouncePhase + 3 * delta
             bounce == Sin(phase) \div 2
             moved == IF aggressive
                      THEN VAdd(e.position,
                                VScale(horizontalDirection(e.position, playerPosition),
                                       FMul(e.speed, delta)))
                      ELSE e.position
             cooldown == e.attackCooldown - delta
             shocks == /\ aggressive
                       /\ cooldown <= 0
                       /\ closerThan(e.position, playerPosition, 8 * Unit)
         IN  [e EXCEPT !.isAggressive = aggressive,
                       !.bouncePhase = phase,
                       !.position = [moved EXCEPT !.y = e.patrolCenter.y + 3 * Unit + bounce],
                       !.attackCooldown = IF shocks THEN e.attackRate ELSE cooldown,
                       !.lastShockTime = IF shocks THEN now ELSE @]

\* MachineGun.update(delta, playerPosition): the phase of the bobbing advances; the
\* rest of the method moves the mesh only.
machineGunUpdate(e, delta) ==
    IF ~e.alive THEN e ELSE [e EXCEPT !.bobPhase = @ + 2 * delta]

\* MachineGun.canPickup(playerPosition): closer than 3.5.
canPickup(e, playerPosition) == closerThan(e.position, playerPosition, (35 * Unit) \div 10)

\* TreasureBox.unlock().
unlock(e) == [e EXCEPT !.locked = FALSE]

\* A mutant of open: the lock is not consulted.
openUnlocked(e) ==
    IF e.opened THEN [entity |-> e, ret |-> FALSE]
    ELSE [entity |-> [e EXCEPT !.opened = TRUE], ret |-> TRUE]

\* TreasureBox.open(): the box after the call and the value returned.
open(e) ==
    IF e.locked \/ e.opened THEN [entity |-> e, ret |-> FALSE]
    ELSE [entity |-> [e EXCEPT !.opened = TRUE], ret |-> TRUE]

\* entity.update(delta, playerPos) for an entity of any class.  TreasureBox inherits
\* Entity.update, which does nothing.
entityUpdate(e, delta, playerPosition, rnd, now) ==
    CASE e.kind = "Zombie" -> zombieUpdate(e, delta, playerPosition, rnd)
      [] e.kind = "FireDragon" -> dragonUpdate(e, delta, playerPosition)
      [] e.kind = "FireJellyfish" -> jellyfishUpdate(e, delta, playerPosition, now)
      [] e.kind = "MachineGun" -> machineGunUpdate(e, delta)
      [] OTHER -> e

(***************************************************************************)
(* Game: the frame loop and the input listeners, some time into a game.    *)
(* Bounds of the model: the part of the terrain the player is followed on, *)
(* the frame times, the camera's directions, the values Math.random()      *)
(* returns and the number of frames.                                       *)
(***************************************************************************)
\* The number of frames followed.
MaxFrames == 3

\* The terrain around the player: the floor clearSpawnArea leaves at the spawn point
\* (it removes the layers 5 to 30 for x and z from 5 to 15, where the height map is
\* at least 4 everywhere), and the top blocks of the columns spawnRandomZombie
\* searches for the values of GameRandoms (heights 7 and 3 by the height map).
GameTerrain ==
    LET SpawnAreaCells == {<<x, 4, z>> : x \in 5..15, z \in 5..15}
        ZombieGroundCells == {<<15, 7, 0>>, <<-28, 3, 0>>}
    IN  [k \in SpawnAreaCells \cup ZombieGroundCells |->
            IF k \in SpawnAreaCells THEN "stone" ELSE "grass"]

\* A point over the cleared floor: a body there touches no cell outside it.
InSpawnArea(p) ==
    /\ p.x \in (6 * Unit)..(15 * Unit)
    /\ p.z \in (6 * Unit)..(15 * Unit)
    /\ p.y \in (4 * Unit)..(25 * Unit)

\* clock.getDelta(): 0.1 s and 0.5 s.
GameDeltas == {Unit \div 10, Unit \div 2}

\* The normalised moveDirection of a frame with KeyW held: towards the machine gun.
GameHeadings == {<<-((6 * Unit) \div 10), -((8 * Unit) \div 10)>>}

\* camera.getWorldDirection when a shot is requested: straight up, and level along
\* the heading.
GameForwards ==
    {[x |-> 0, y |-> Unit, z |-> 0],
     [x |-> -((6 * Unit) \div 10), y |-> 0, z |-> -((8 * Unit) \div 10)]}

\* What four successive calls of Math.random() return: all 0, or all 0.5.
GameRandoms == {<<0, 0, 0, 0>>, <<Unit \div 2, Unit \div 2, Unit \div 2, Unit \div 2>>}

\* event.code of the keys pressed.  (The mouse buttons pressed are the left, 0, and
\* the right, 2.)
GameKeyCodes == {"KeyW", "Space"}

\* combat.hasMachineGun: CombatSystem defines no such field, so the read gives
\* undefined, which the condition of the auto-fire takes for false.
hasMachineGun == FALSE

\* The objects some time into a game, under the identities 1 to 7 in the order
\* spawnEntities constructs them: the dragon, the jellyfish, the two treasures, the
\* machine gun and the two zombies.  The dragon has been hit seven times, has
\* followed the player and hovers 5 above the camera, and its last fireball is on its
\* way down; the jellyfish is dead where it was killed; the treasures and the machine
\* gun are where spawnEntities put them; one zombie wanders near the place it was
\* spawned at, and the other, hit three times, has chased the player and is 6 away
\* from the camera along the heading.
GameObjects ==
    (1 :>
        [FireDragon([x |-> 30 * Unit, y |-> 15 * Unit, z |-> 30 * Unit])
            EXCEPT !.position = [x |-> 10 * Unit, y |-> 10 * Unit, z |-> 10 * Unit],
                   !.health = 25, !.isAggressive = TRUE,
                   !.patrolAngle = 6 * Unit,
                   !.attackCooldown = (9 * Unit) \div 10,
                   !.fireballs = <<[position |-> [x |-> 10 * Unit, y |-> -Unit, z |-> 10 * Unit],
                                    velocity |-> [x |-> 0, y |-> -(10 * Unit), z |-> 0],
                                    damage |-> 20]>>])
    @@ (2 :>
        [FireJellyfish([x |-> -(30 * Unit), y |-> 8 * Unit, z |-> -(30 * Unit)])
            EXCEPT !.position = [x |-> -(25 * Unit), y |-> 11 * Unit, z |-> -(25 * Unit)],
                   !.health = 0, !.alive = FALSE, !.onDeaths = 1, !.isAggressive = TRUE,
                   !.bouncePhase = 30 * Unit, !.attackCooldown = 2 * Unit,
                   !.lastShockTime = 1])
    @@ (3 :> TreasureBox([x |-> 35 * Unit, y |-> 5 * Unit, z |-> 35 * Unit]))
    @@ (4 :> TreasureBox([x |-> -(35 * Unit), y |-> 5 * Unit, z |-> -(35 * Unit)]))
    @@ (5 :> [MachineGun([x |-> 5 * Unit, y |-> 7 * Unit, z |-> 5 * Unit])
                   EXCEPT !.bobPhase = 120 * Unit])
    @@ (6 :>
        [Zombie([x |-> (155 * Unit) \div 10, y |-> 9 * Unit, z |-> Unit \div 2])
            EXCEPT !.position = [x |-> (175 * Unit) \div 10, y |-> 9 * Unit, z |-> Unit \div 2],
                   !.state = "wander", !.stateTimer = Unit,
                   !.wanderTarget = [x |-> (225 * Unit) \div 10, y |-> 9 * Unit, z |-> Unit \div 2],
                   !.attackCooldown = -(60 * Unit)])
    @@ (7 :>
        [Zombie([x |-> -((275 * Unit) \div 10), y |-> 5 * Unit, z |-> Unit \div 2])
            EXCEPT !.position = [x |-> (64 * Unit) \div 10, y |-> 5 * Unit,
                                 z |-> (52 * Unit) \div 10],
                   !.health = 25, !.state = "chase", !.stateTimer = -(20 * Unit),
                   !.wanderTarget = [x |-> -(30 * Unit), y |-> 5 * Unit, z |-> Unit \div 2],
                   !.attackCooldown = -(60 * Unit)])

\* The game some time after construction: the player stands on the cleared floor under
\* the spawn point, on a device with a mouse, a keyboard and a touch screen.
InitGame ==
    /\ worldData = GameTerrain
    /\ meshes = DOMAIN GameTerrain
    /\ camera = [SpawnPosition EXCEPT !.y = 5 * Unit]
    /\ velocity = Origin
    /\ canJump = TRUE
    /\ moveForward = FALSE
    /\ moveBackward = FALSE
    /\ moveLeft = FALSE
    /\ moveRight = FALSE
    /\ active = TRUE
    /\ InitCombat
    /\ heap = GameObjects
    /\ gameState = "playing"
    /\ isMouseDown = FALSE
    /\ isLocked = TRUE
    /\ entities = <<1, 2, 3, 4, 5, 6, 7>>
    /\ bosses = <<1, 2>>
    /\ treasures = <<3, 4>>
    /\ zombies = <<6, 7>>
    /\ machineGun = 5
    /\ frameNo = 0
    /\ call = NoCall

\* Controls.update(delta) as a function: the candidate position, and the camera
\* position, velocity.y and canJump it leaves.
controlsUpdate(w, pos, vel, jumpOk, move, delta) ==
    LET vy == applyGravity(vel.y, delta)
        np == newPosition(pos, vy, move, delta)
        x == resolveX(w, pos, np)
        z == resolveZ(w, pos, x, np)
        r == resolveY(w, pos, x, z, np, vy, jumpOk)
    IN  [candidate |-> np,
         camera |-> [x |-> x, y |-> r.y, z |-> z],
         velocity |-> [vel EXCEPT !.y = r.vy],
         canJump |-> r.canJump]

\* The identities a list of entities holds.
Listed(list) == {list[i] : i \in 1..Len(list)}

\* Game.animate: "this.entities.forEach(entity => entity.update(delta, playerPos))".
\* An update reads and writes its own entity only, so the order does not show.
updateEntities(h, list, delta, playerPosition, rnd, now) ==
    [id \in DOMAIN h |->
        IF \E i \in 1..Len(list) : list[i] = id
        THEN entityUpdate(h[id], delta, playerPosition, rnd, now)
        ELSE h[id]]

\* Game.animate: the test before the pickup.
pickupDue(h, mg, playerPosition) ==
    mg # NoEntity /\ h[mg].alive /\ canPickup(h[mg], playerPosition)

\* A mutant of aliveZombies: the cleanup loop removes no zombie from the zombies list.
aliveZombiesAll(h, zs) == zs

\* Game.animate: the zombies left by the cleanup loop, and the entities without the
\* zombies it removed.
aliveZombies(h, zs) == SelectSeq(zs, LAMBDA id : h[id].alive)
withoutDeadZombies(h, es, zs) ==
    SelectSeq(es, LAMBDA id : ~((\E i \in 1..Len(zs) : zs[i] = id) /\ ~h[id].alive))

\* Game.spawnRandomZombie: the search for the ground from by = 20 down.
RECURSIVE groundFrom(_, _, _, _)
groundFrom(w, bx, by, bz) ==
    IF by > 0 /\ ~hasBlock(w, bx * Unit, (by - 1) * Unit, bz * Unit)
    THEN groundFrom(w, bx, by - 1, bz)
    ELSE by

\* Game.spawnRandomZombie: the position of the new zombie, over the block (bx, bz).
\* rnd[2] and rnd[3] are what Math.random() returns for the angle and the radius.
spawnPosition(w, rnd) ==
    LET angle == FMul(rnd[2], 2 * Pi)
        radius == 15 * Unit + FMul(rnd[3], 25 * Unit)
        bx == Floor(FMul(Cos(angle), radius))
        bz == Floor(FMul(Sin(angle), radius))
        found == groundFrom(w, bx, 20, bz)
        by == IF found = 0 THEN 5 ELSE found
    IN  [x |-> bx * Unit + Unit \div 2, y |-> (by + 1) * Unit, z |-> bz * Unit + Unit \div 2]

\* Game.spawnRandomZombie on the lists and the heap: the new zombie gets the next
\* identity and is pushed on entities and on zombies.
spawnRandomZombie(g, w, rnd) ==
    LET id == Cardinality(DOMAIN g.heap) + 1
    IN  [heap |-> g.heap @@ (id :> Zombie(spawnPosition(w, rnd))),
         entities |-> Append(g.entities, id),
         zombies |-> Append(g.zombies, id)]

\* A mutant of respawn: no zombie is spawned while one is left.
respawnWhenNone(g, w, rnd) == IF Len(g.zombies) < 1 THEN spawnRandomZombie(g, w, rnd) ELSE g

\* Game.animate: "if (this.zombies.length < 2) this.spawnRandomZombie()".
respawn(g, w, rnd) == IF Len(g.zombies) < 2 THEN spawnRandomZombie(g, w, rnd) ELSE g

\* A mutant of checkVictory: "every" is "some".
checkVictorySome(state, h, bs) ==
    IF (\E i \in 1..Len(bs) : ~h[bs[i]].alive) /\ state = "playing" THEN "victory" ELSE state

\* Game.checkVictory and Game.checkDefeat: the gameState they leave.
checkVictory(state, h, bs) ==
    IF (\A i \in 1..Len(bs) : ~h[bs[i]].alive) /\ state = "playing" THEN "victory" ELSE state
checkDefeat(state, health) ==
    IF ~isPlayerAlive(health) /\ state = "playing" THEN "defeat" ELSE state

\* Game.animate in a frame that gameState does not let run: nothing but the frame
\* count changes.
AnimatePaused(delta) ==
    /\ gameState # "playing"
    /\ frameNo' = frameNo + 1
    /\ call' = [op |-> "animate", args |-> <<delta>>, ret |-> <<>>, thrown |-> FALSE]
    /\ UNCHANGED <<worldVars, bodyVars, flagVars, active, combatVars, heap,
                   gameState, isMouseDown, isLocked, listVars>>

\* Game.animate: combat.update(delta) and then the auto-fire, "if (this.isMouseDown
\* && this.combat.hasMachineGun) this.combat.shootProjectile()", with the camera at
\* cam and looking along forward.
combatStep(cooldown, ps, adv, mouseDown, cam, forward, delta) ==
    LET cooled == cooldownAfter(cooldown, delta)
        moved == advanceProjectiles(ps, cam, delta)
        elapsed == IF adv + delta < attackRate THEN adv + delta ELSE attackRate
    IN  IF mouseDown /\ hasMachineGun
        THEN [attackCooldown |-> shootCooldown(cooled),
              projectiles |-> shootProjectiles(moved, cooled, cam, forward),
              advanced |-> IF canAttack(cooled) THEN 0 ELSE elapsed]
        ELSE [attackCooldown |-> cooled, projectiles |-> moved, advanced |-> elapsed]

\* Game.animate in a frame whose pickup test holds: CombatSystem defines no method
\* pickupMachineGun, so "this.combat.pickupMachineGun()" throws a TypeError, and the
\* frame ends with what the steps before it have done.  call.ret names the steps
\* that ran, in the order they ran.
AnimateThrows(delta, c, h, k) ==
    /\ camera' = c.camera
    /\ velocity' = c.velocity
    /\ canJump' = c.canJump
    /\ heap' = h
    /\ attackCooldown' = k.attackCooldown
    /\ projectiles' = k.projectiles
    /\ advanced' = k.advanced
    /\ frameNo' = frameNo + 1
    /\ call' = [op |-> "animate", args |-> <<delta>>,
                ret |-> <<"controls.update", "entities.update", "combat.update">>,
                thrown |-> TRUE]
    /\ UNCHANGED <<worldVars, flagVars, active, playerHealth,
                   gameState, isMouseDown, isLocked, listVars>>

\* Game.animate in a frame that runs to its end.
AnimateCompletes(delta, c, h, k, rnd) ==
    \E r \in {checkProjectileHits(k.projectiles, bosses \o zombies, h)} :
    \E g \in {respawn(respawn([heap |-> r.heap,
                               entities |-> withoutDeadZombies(r.heap, entities, zombies),
                               zombies |-> aliveZombies(r.heap, zombies)],
                              worldData, rnd), worldData, rnd)} :
    \E won \in {checkVictory(gameState, g.heap, bosses)} :
        /\ camera' = c.camera
        /\ velocity' = c.velocity
        /\ canJump' = c.canJump
        /\ attackCooldown' = k.attackCooldown
        /\ projectiles' = r.projectiles
        /\ advanced' = k.advanced
        /\ heap' = IF won = "victory" /\ gameState = "playing"
                   THEN [id \in DOMAIN g.heap |->
                            IF (\E i \in 1..Len(treasures) : treasures[i] = id)
                            THEN unlock(g.heap[id])
                            ELSE g.heap[id]]
                   ELSE g.heap
        /\ entities' = g.entities
        /\ zombies' = g.zombies
        /\ gameState' = checkDefeat(won, playerHealth)
        /\ frameNo' = frameNo + 1
        /\ call' = [op |-> "animate", args |-> <<delta>>,
                    ret |-> <<"controls.update", "entities.update", "combat.update",
                              "checkProjectileHits", "cleanup", "respawn",
                              "checkVictory", "checkDefeat">>,
                    thrown |-> FALSE]
        /\ UNCHANGED <<worldVars, flagVars, active, playerHealth,
                       isMouseDown, isLocked, bosses, treasures, machineGun>>

\* Game.animate in a frame of gameState 'playing', with the camera's yaw giving
\* heading and the camera looking along forward.  The frame is followed while the
\* candidate position is over the cleared floor.
AnimatePlaying(delta, heading, forward, rnd) ==
    \E c \in {controlsUpdate(worldData, camera, velocity, canJump,
                  moveDirection(direction(moveForward, moveBackward, moveLeft, moveRight),
                                heading), delta)} :
    \E h \in {updateEntities(heap, entities, delta, c.camera, rnd, frameNo + 1)} :
    \E k \in {combatStep(attackCooldown, projectiles, advanced, isMouseDown,
                          c.camera, forward, delta)} :
        /\ gameState = "playing"
        /\ InSpawnArea(c.candidate)
        /\ IF pickupDue(h, machineGun, c.camera)
           THEN AnimateThrows(delta, c, h, k)
           ELSE AnimateCompletes(delta, c, h, k, rnd)

\* Game.animate(), called by requestAnimationFrame with clock.getDelta() = delta.
Animate(delta, heading, forward, rnd) ==
    /\ frameNo < MaxFrames
    /\ \/ AnimatePaused(delta)
       \/ AnimatePlaying(delta, heading, forward, rnd)

\* The mousedown listener of Game.setupMouseEvents, for event.button = button, with
\* the camera looking along forward.
MouseDown(button, forward) ==
    /\ IF ~isLocked \/ gameState # "playing" \/ button # 0
       THEN UNCHANGED <<isMouseDown, combatVars>>
       ELSE /\ isMouseDown' = TRUE
            /\ attackCooldown' = shootCooldown(attackCooldown)
            /\ projectiles' = shootProjectiles(projectiles, attackCooldown, camera, forward)
            /\ advanced' = IF canAttack(attackCooldown) THEN 0 ELSE advanced
            /\ UNCHANGED playerHealth
    /\ UNCHANGED <<worldVars, bodyVars, flagVars, active, heap,
                   gameState, isLocked, listVars, frameNo, call>>

\* The mouseup listener of Game.setupMouseEvents.
MouseUp ==
    /\ isMouseDown' = FALSE
    /\ UNCHANGED <<worldVars, bodyVars, flagVars, active, combatVars, heap,
                   gameState, isLocked, listVars, frameNo, call>>

\* MobileControls: the touchstart listener of btnFire, installed when active.
BtnFireTouchStart(forward) ==
    /\ active
    /\ attackCooldown' = shootCooldown(attackCooldown)
    /\ projectiles' = shootProjectiles(projectiles, attackCooldown, camera, forward)
    /\ advanced' = IF canAttack(attackCooldown) THEN 0 ELSE advanced
    /\ isMouseDown' = TRUE
    /\ UNCHANGED <<worldVars, bodyVars, flagVars, active, playerHealth, heap,
                   gameState, isLocked, listVars, frameNo, call>>

\* MobileControls: the touchend listener of btnFire.
BtnFireTouchEnd ==
    /\ active
    /\ isMouseDown' = FALSE
    /\ UNCHANGED <<worldVars, bodyVars, flagVars, active, combatVars, heap,
                   gameState, isLocked, listVars, frameNo, call>>

\* Controls.onPointerLockChange: isLocked tells whether the pointer is locked now.
OnPointerLockChange(locked) ==
    /\ isLocked' = locked
    /\ UNCHANGED <<worldVars, bodyVars, flagVars, active, combatVars, heap,
                   gameState, isMouseDown, listVars, frameNo, call>>

NextGame ==
    \/ \E delta \in GameDeltas, heading \in GameHeadings, forward \in GameForwards,
          rnd \in GameRandoms :
           Animate(delta, heading, forward, rnd)
    \/ \E code \in GameKeyCodes : OnKeyDown(code)
    \/ \E code \in GameKeyCodes : OnKeyUp(code)
    \/ BtnJumpTouchStart
    \/ \E button \in {0, 2}, forward \in GameForwards : MouseDown(button, forward)
    \/ MouseUp
    \/ \E forward \in GameForwards : BtnFireTouchStart(forward)
    \/ BtnFireTouchEnd
    \/ \E locked \in BOOLEAN : OnPointerLockChange(locked)

SpecGame == InitGame /\ [][NextGame]_vars

(***************************************************************************)
(* The game with a shot on its way.  The dragon, the last boss, approaches *)
(* 12 away from the player and 5 above, and the projectile fired at it     *)
(* 0.4 s ago, along (12, 5, 0) / 13, has 3 to go: the attack cooldown is   *)
(* 0.1.                                                                    *)
(***************************************************************************)
InitShotFired ==
    /\ worldData = GameTerrain
    /\ meshes = DOMAIN GameTerrain
    /\ camera = [SpawnPosition EXCEPT !.y = 5 * Unit]
    /\ velocity = Origin
    /\ canJump = TRUE
    /\ moveForward = FALSE
    /\ moveBackward = FALSE
    /\ moveLeft = FALSE
    /\ moveRight = FALSE
    /\ active = TRUE
    /\ attackCooldown = attackRate - (4 * Unit) \div 10
    /\ projectiles =
           <<[position |-> [x |-> (192 * Unit) \div 10, y |-> (88 * Unit) \div 10,
                            z |-> 10 * Unit],
              velocity |-> [x |-> (185 * Unit) \div 10, y |-> (77 * Unit) \div 10, z |-> 0],
              damage |-> attackDamage]>>
    /\ playerHealth = maxPlayerHealth
    /\ advanced = (4 * Unit) \div 10
    /\ heap = [GameObjects EXCEPT
                  ![1].position = [x |-> 22 * Unit, y |-> 10 * Unit, z |-> 10 * Unit]]
    /\ gameState = "playing"
    /\ isMouseDown = FALSE
    /\ isLocked = TRUE
    /\ entities = <<1, 2, 3, 4, 5, 6, 7>>
    /\ bosses = <<1, 2>>
    /\ treasures = <<3, 4>>
    /\ zombies = <<6, 7>>
    /\ machineGun = 5
    /\ frameNo = 0
    /\ call = NoCall

\* The frames, the key and mouse presses and the touches of the fire button.
NextShotFired ==
    \/ \E delta \in GameDeltas, heading \in GameHeadings, forward \in GameForwards,
          rnd \in GameRandoms :
           Animate(delta, heading, forward, rnd)
    \/ \E code \in GameKeyCodes : OnKeyDown(code)
    \/ \E button \in {0, 2}, forward \in GameForwards : MouseDown(button, forward)
    \/ MouseUp
    \/ \E forward \in GameForwards : BtnFireTouchStart(forward)

SpecShotFired == InitShotFired /\ [][NextShotFired]_vars

(***************************************************************************)
(* One zombie and the player.  Zombie.update is called once a frame with   *)
(* the player's position, which Controls moves between the frames.  Bounds *)
(* of the model: the number of updates followed, the places of the player  *)
(* and the states the zombie starts in.                                    *)
(***************************************************************************)
\* The updates of the zombie that are followed.
MaxUpdates == 4

\* Where the zombie is at first.
ZombieStart == [x |-> 0, y |-> 5 * Unit, z |-> 0]

\* The player's positions, on the zombie's level: 10, 15, 20, 22.5 and 30 from the
\* place the zombie starts at.
PlayerSpots ==
    {[ZombieStart EXCEPT !.x = d] :
        d \in {10 * Unit, 15 * Unit, 20 * Unit, (225 * Unit) \div 10, 30 * Unit}}

\* The zombie at first: as constructed; wandering, 0.5 s before the end of the dwell
\* and 4.5 from its target; chasing.
InitZombie ==
    /\ worldData = EmptyMap
    /\ meshes = {}
    /\ camera \in PlayerSpots
    /\ InitControls
    /\ active = FALSE
    /\ InitCombat
    /\ InitNoGame
    /\ \E e \in
           {Zombie(ZombieStart),
            [Zombie(ZombieStart) EXCEPT
                !.state = "wander", !.stateTimer = Unit \div 2,
                !.wanderTarget = [ZombieStart EXCEPT !.x = (45 * Unit) \div 10]],
            [Zombie(ZombieStart) EXCEPT
                !.state = "chase", !.stateTimer = -(5 * Unit),
                !.attackCooldown = -(7 * Unit)]} :
           heap = (1 :> e)
    /\ call = NoCall

\* zombie.update(delta, playerPos) in a frame; frameNo counts the updates.
ZombieUpdate(delta, rnd) ==
    /\ frameNo < MaxUpdates
    /\ heap' = [heap EXCEPT ![1] = zombieUpdate(heap[1], delta, camera, rnd)]
    /\ frameNo' = frameNo + 1
    /\ call' = [op |-> "Zombie.update", args |-> <<delta, camera, rnd>>, ret |-> undefined]
    /\ UNCHANGED <<worldVars, bodyVars, flagVars, active, combatVars,
                   gameState, isMouseDown, isLocked, listVars>>

NextZombie ==
    \/ \E delta \in GameDeltas, rnd \in GameRandoms : ZombieUpdate(delta, rnd)
    \/ \E spot \in PlayerSpots : MoveCamera(spot)

SpecZombie == InitZombie /\ [][NextZombie]_vars

(***************************************************************************)
(* One boss and the player.  The boss's update is called once a frame with *)
(* the player's position, which Controls moves between the frames, and a   *)
(* projectile may kill the boss between two frames.  advanced is here the  *)
(* time the boss's updates have advanced since its last fireball or shock, *)
(* counted up to its attackRate.  The updates are followed up to           *)
(* MaxUpdates while the boss lives, and without end once it is dead.       *)
(***************************************************************************)
\* The boss at first: a dragon and a jellyfish as constructed, and each some time into
\* a fight: the dragon hovering 5 above the player's level with a fireball on its
\* way, the jellyfish 6 away from the nearest place of the player.
InitBoss ==
    /\ worldData = EmptyMap
    /\ meshes = {}
    /\ camera \in PlayerSpots
    /\ InitControls
    /\ active = FALSE
    /\ attackCooldown = 0
    /\ projectiles = <<>>
    /\ playerHealth = maxPlayerHealth
    /\ InitNoGame
    /\ LET hovering == [ZombieStart EXCEPT !.y = 10 * Unit]
           ball == fireball(hovering, [ZombieStart EXCEPT !.x = 10 * Unit])
       IN  \E e \in
               {FireDragon(ZombieStart),
                [FireDragon(ZombieStart) EXCEPT
                    !.position = hovering, !.isAggressive = TRUE,
                    !.attackCooldown = (4 * Unit) \div 10,
                    !.fireballs =
                        <<[ball EXCEPT !.position = VAdd(@, VScale(ball.velocity, Unit))]>>],
                FireJellyfish(ZombieStart),
                [FireJellyfish(ZombieStart) EXCEPT
                    !.position = [x |-> 4 * Unit, y |-> 8 * Unit, z |-> 0],
                    !.isAggressive = TRUE, !.attackCooldown = (3 * Unit) \div 10]} :
               /\ heap = (1 :> e)
               /\ advanced = e.attackRate - e.attackCooldown
    /\ call = NoCall

\* boss.update(delta, playerPos) in a frame.  The living boss has emitted when a
\* fireball is where one update takes it from the dragon's place, or when
\* lastShockTime is the time of this frame.
BossUpdate(delta) ==
    \E e \in {entityUpdate(heap[1], delta, camera, <<0, 0, 0, 0>>, frameNo + 1)} :
    \E emitted \in
          {/\ heap[1].alive
           /\ IF e.kind = "FireDragon"
              THEN \E i \in 1..Len(e.fireballs) :
                       e.fireballs[i].position
                         = VAdd(e.position, VScale(e.fireballs[i].velocity, delta))
              ELSE e.lastShockTime = frameNo + 1} :
        /\ frameNo < MaxUpdates \/ ~heap[1].alive
        /\ heap' = [heap EXCEPT ![1] = e]
        /\ frameNo' = IF frameNo < MaxUpdates THEN frameNo + 1 ELSE frameNo
        /\ advanced' = IF emitted THEN 0
                       ELSE IF advanced + delta < e.attackRate THEN advanced + delta
                       ELSE e.attackRate
        /\ call' = [op |-> "Boss.update", args |-> <<delta>>, ret |-> undefined,
                    effects |-> IF emitted THEN <<"emit">> ELSE <<>>]
        /\ UNCHANGED <<worldVars, bodyVars, flagVars, active,
                       attackCooldown, projectiles, playerHealth,
                       gameState, isMouseDown, isLocked, listVars>>

NextBoss ==
    \/ \E delta \in {Unit \div 2, 2 * Unit} : BossUpdate(delta)
    \/ \E spot \in PlayerSpots : MoveCamera(spot)
    \/ TakeDamage(1, 200)

SpecBoss == InitBoss /\ [][NextBoss]_vars

\* The frames keep coming: animate requests the next frame before anything else, and
\* every frame of state 'playing' updates every listed entity.  The updates of the
\* living boss being followed up to MaxUpdates only, the fairness is stated of the
\* updates of the dead boss.
SpecBossFair ==
    SpecBoss /\ WF_vars(~heap[1].alive /\ \E delta \in {Unit \div 2, 2 * Unit} : BossUpdate(delta))

(***************************************************************************)
(* The game with the treasure boxes' open method.  Nothing under src/      *)
(* calls open; a caller may call it on either box between any two frames,  *)
(* in any gameState, while the player walks and shoots.                    *)
(***************************************************************************)
\* treasure.open() on the treasure box id.
Open(id) ==
    /\ heap' = [heap EXCEPT ![id] = open(heap[id]).entity]
    /\ call' = [op |-> "open", args |-> <<id>>, ret |-> open(heap[id]).ret]
    /\ UNCHANGED <<worldVars, bodyVars, flagVars, active, combatVars, gameVars>>

NextTreasure ==
    \/ \E delta \in GameDeltas, heading \in GameHeadings, forward \in GameForwards,
          rnd \in GameRandoms :
           Animate(delta, heading, forward, rnd)
    \/ OnKeyDown("KeyW")
    \/ \E button \in {0, 2}, forward \in GameForwards : MouseDown(button, forward)
    \/ \E id \in Listed(treasures) : Open(id)

SpecTreasure == InitGame /\ [][NextTreasure]_vars

(***************************************************************************)
(* Properties of the store.  A cell is named without Floor: CellOf(v) is   *)
(* the integer n with n <= v / Unit < n + 1.                               *)
(***************************************************************************)
CellOf(v) == CHOOSE n \in -40..40 : n * Unit <= v /\ v < (n + 1) * Unit
CellOfPoint(x, y, z) == <<CellOf(x), CellOf(y), CellOf(z)>>
ArgKey(c) == getBlockKey(c.args[1], c.args[2], c.args[3])
ArgCell(c) == CellOfPoint(c.args[1], c.args[2], c.args[3])

\* C1: addBlock(C, T) on a store where C is empty makes hasBlock(C) true and
\* getBlock(C) = T; a removeBlock(C) that follows it makes hasBlock(C) false and
\* getBlock(C) absent.
C1_AddThenRemove ==
    [][ /\ (call'.op = "addBlock"
            /\ ~hasBlock(worldData, call'.args[1], call'.args[2], call'.args[3]))
           => /\ hasBlock(worldData', call'.args[1], call'.args[2], call'.args[3])
              /\ getBlock(worldData', call'.args[1], call'.args[2], call'.args[3])
                   = call'.args[4]
        /\ (call.op = "addBlock" /\ call'.op = "removeBlock" /\ ArgKey(call') = ArgKey(call))
           => /\ ~hasBlock(worldData', call'.args[1], call'.args[2], call'.args[3])
              /\ getBlock(worldData', call'.args[1], call'.args[2], call'.args[3])
                   = undefined
      ]_vars

\* C1 witness: a removeBlock has just removed a stored block, and the cell is empty.
C1_Witness ==
    /\ call.op = "removeBlock"
    /\ call.ret = TRUE
    /\ ~hasBlock(worldData, call.args[1], call.args[2], call.args[3])
    /\ DOMAIN worldData # {}

\* C2: addBlock on an occupied cell changes nothing: the keys, the stored types and
\* so the type first written to the cell all stay.
C2_FirstWriteWins ==
    [][ (call'.op = "addBlock"
         /\ hasBlock(worldData, call'.args[1], call'.args[2], call'.args[3]))
        => /\ worldData' = worldData
           /\ meshes' = meshes
           /\ getBlock(worldData', call'.args[1], call'.args[2], call'.args[3])
                = getBlock(worldData, call'.args[1], call'.args[2], call'.args[3])
      ]_vars

\* C2 witness: after addBlock(C, T2) the cell still holds another type T1.
C2_Witness ==
    /\ call.op = "addBlock"
    /\ getBlock(worldData, call.args[1], call.args[2], call.args[3]) \in BlockTypes \ {call.args[4]}

\* C3: removeBlock on an empty cell, getBlock and hasBlock return a value and change
\* neither the keys nor a stored type; removeBlock returns false for an absent cell
\* and true exactly when it removed a stored one.
C3_QueriesAndAbsentRemove ==
    [][ /\ call'.op \in {"getBlock", "hasBlock"}
           => /\ worldData' = worldData
              /\ meshes' = meshes
        /\ call'.op = "getBlock" => call'.ret \in BlockTypes \cup {undefined}
        /\ call'.op = "hasBlock" => call'.ret \in BOOLEAN
        /\ call'.op = "removeBlock"
           => /\ call'.ret \in BOOLEAN
              /\ ArgCell(call') \notin DOMAIN worldData
                 => (call'.ret = FALSE /\ worldData' = worldData /\ meshes' = meshes)
              /\ call'.ret = TRUE
                 <=> /\ ArgCell(call') \in DOMAIN worldData
                     /\ DOMAIN worldData' = (DOMAIN worldData) \ {ArgCell(call')}
      ]_vars

\* C3 witness: removeBlock on an empty cell of a store that holds blocks returned false.
C3_Witness ==
    /\ call.op = "removeBlock"
    /\ call.ret = FALSE
    /\ DOMAIN worldData # {}

\* C4: every operation addresses the cell its point floors to, toward negative
\* infinity on each axis, so two points of one cell address the same cell and
\* x = -0.5 addresses cell -1.
C4_FloorAddressing ==
    /\ call.op = "addBlock" => ArgCell(call) \in DOMAIN worldData
    /\ call.op = "removeBlock" => ArgCell(call) \notin DOMAIN worldData
    /\ call.op = "getBlock"
       => call.ret = IF ArgCell(call) \in DOMAIN worldData
                     THEN worldData[ArgCell(call)] ELSE undefined
    /\ call.op = "hasBlock" => call.ret = (ArgCell(call) \in DOMAIN worldData)
    /\ (call.op = "addBlock" /\ call.args[1] = -(Unit \div 2))
       => \E k \in DOMAIN worldData : k[1] = -1

\* C4 witness: hasBlock at x = -0.5 found the block that was stored at x = -1.
C4_Witness ==
    /\ call.op = "hasBlock"
    /\ call.args[1] = -(Unit \div 2)
    /\ call.ret = TRUE
    /\ \A k \in DOMAIN worldData : k[1] = -1

\* The box of checkCollision(x, y, z, width, height) holds the cell k: on each axis
\* floor(lo) <= k <= floor(hi), which for an integer k is lo < k + 1 and k <= hi.
InBox(k, x, y, z, width, height) ==
    /\ 2 * x - width < 2 * (k[1] + 1) * Unit
    /\ 2 * k[1] * Unit <= 2 * x + width
    /\ y < (k[2] + 1) * Unit
    /\ k[2] * Unit <= y + height
    /\ 2 * z - width < 2 * (k[3] + 1) * Unit
    /\ 2 * k[3] * Unit <= 2 * z + width

\* C5: checkCollision returns true exactly when a stored cell lies in the box's
\* inclusive cell range, and it leaves the store as it was.
C5_CollisionIffOccupied ==
    [][ call'.op = "checkCollision"
        => /\ call'.ret = (\E k \in DOMAIN worldData :
                             InBox(k, call'.args[1], call'.args[2], call'.args[3],
                                   call'.args[4], call'.args[5]))
           /\ worldData' = worldData
           /\ meshes' = meshes
      ]_vars

\* C5 witness: a box whose centre cell is empty collided with a neighbouring cell.
C5_Witness ==
    /\ call.op = "checkCollision"
    /\ call.ret = TRUE
    /\ ArgCell(call) \notin DOMAIN worldData

\* C6: a positive checkCollision stays positive for every box of the same centre
\* that is at least as wide and at least as high.
C6_CollisionMonotonic ==
    (call.op = "checkCollision" /\ call.ret = TRUE)
    => \A width \in Widths, height \in Heights :
         (width >= call.args[4] /\ height >= call.args[5])
         => checkCollision(worldData, call.args[1], call.args[2], call.args[3],
                           width, height)

\* C6 witness: the smallest box collided while larger boxes exist.
C6_Witness ==
    /\ call.op = "checkCollision"
    /\ call.ret = TRUE
    /\ \E width \in Widths, height \in Heights :
         width > call.args[4] /\ height > call.args[5]

(***************************************************************************)
(* Properties of Controls.  A step of a frame is recognised by what       *)
(* call records of it; the properties restate what the frame does from the *)
(* state before it, with the box test stated on the stored cells.          *)
(***************************************************************************)
\* The step is Controls.update with the frame time and moveDirection call' records.
UpdateStep ==
    /\ call'.op = "update"
    /\ Update(call'.args[1], <<call'.args[2].x, call'.args[2].z>>)

\* The step is a jump request: the Space key or the jump button.
JumpStep == OnKeyDown("Space") \/ BtnJumpTouchStart

\* The player's box at (x, y, z) holds a stored cell.
BoxHit(x, y, z) ==
    \E k \in DOMAIN worldData : InBox(k, x, y, z, (6 * Unit) \div 10, (18 * Unit) \div 10)

\* The candidate position of the frame that call' records, from the state before it:
\* 5 blocks a second along moveDirection, and the velocity after gravity (20).
CandX == camera.x + (call'.args[2].x * 5 * call'.args[1]) \div Unit
CandZ == camera.z + (call'.args[2].z * 5 * call'.args[1]) \div Unit
CandVy == velocity.y - 20 * call'.args[1]
CandY == camera.y + (CandVy * call'.args[1]) \div Unit

\* C7: update resolves X, then Z, then Y.  X is tested at (newX, y, z), Z at (the
\* resolved x, y, newZ), Y at (the resolved x, newY, the resolved z); a rejected X or
\* Z move leaves that coordinate, and Z is accepted or not by its own test alone.
C7_AxisOrder ==
    [][ UpdateStep
        => /\ camera'.x = IF BoxHit(CandX, camera.y, camera.z) THEN camera.x ELSE CandX
           /\ camera'.z = IF BoxHit(camera'.x, camera.y, CandZ) THEN camera.z ELSE CandZ
           /\ call'.ret[3] = ~BoxHit(camera'.x, CandY, camera'.z)
           /\ call'.ret[3] => camera'.y = CandY
      ]_vars

\* C7 witness: a frame moving along both axes had its X move rejected and its Z move
\* accepted (the body slid along the pillar).
C7_Witness ==
    /\ call.op = "update"
    /\ call.args[1] > 0
    /\ call.args[2].x # 0
    /\ call.args[2].z # 0
    /\ call.ret[1] = FALSE
    /\ call.ret[2] = TRUE

\* C8: update subtracts gravity * delta from velocity.y first and moves by the new
\* velocity: an accepted vertical move ends with velocity.y - 20 * delta and with y
\* changed by that velocity times delta; from velocity.y = 0 with delta = 1 that is
\* velocity.y = -20 and y lower by 20.
C8_GravityFirst ==
    [][ (UpdateStep /\ ~BoxHit(camera'.x, CandY, camera'.z))
        => /\ velocity'.y = velocity.y - 20 * call'.args[1]
           /\ Unit * (camera'.y - camera.y) = velocity'.y * call'.args[1]
           /\ (velocity.y = 0 /\ call'.args[1] = Unit)
              => (velocity'.y = -(20 * Unit) /\ camera'.y = camera.y - 20 * Unit)
      ]_vars

\* C8 witness: a frame of 1 s, begun at rest at the start point, ended 20 blocks
\* lower with velocity.y = -20.
C8_Witness ==
    /\ call.op = "update"
    /\ call.args[1] = Unit
    /\ call.ret[3] = TRUE
    /\ velocity.y = -(20 * Unit)
    /\ camera.y = StartPosition.y - 20 * Unit

\* C9: a vertical move rejected while falling grounds the body in that update:
\* canJump is true, velocity.y is 0 and y is the floor of its value before the move;
\* an accepted vertical move clears canJump.
C9_Grounding ==
    [][ UpdateStep
        => /\ (BoxHit(camera'.x, CandY, camera'.z) /\ CandVy < 0)
              => /\ canJump'
                 /\ velocity'.y = 0
                 /\ camera'.y = CellOf(camera.y) * Unit
           /\ ~BoxHit(camera'.x, CandY, camera'.z) => ~canJump'
      ]_vars

\* C9 witness: the body fell onto the floor from a height that is no whole number of
\* blocks and was grounded at the floor of that height.
C9_Witness ==
    /\ call.op = "update"
    /\ call.ret[3] = FALSE
    /\ canJump
    /\ velocity.y = 0
    /\ camera.y = 2 * Unit

\* C10: a jump request leaves velocity.y alone when canJump is false and sets it to 8
\* when canJump is true, changing nothing else; canJump then stays true until an
\* update whose vertical move is accepted, which clears it.
C10_Jump ==
    [][ /\ JumpStep
           => /\ velocity'.y = IF canJump THEN 8 * Unit ELSE velocity.y
              /\ canJump' = canJump
              /\ camera' = camera
        /\ (canJump /\ ~canJump') => (UpdateStep /\ call'.ret[3])
        /\ (UpdateStep /\ ~BoxHit(camera'.x, CandY, camera'.z)) => ~canJump'
      ]_vars

\* C10 witness: after a jump the first frame's vertical move was accepted: the body
\* rises and canJump is false.
C10_Witness ==
    /\ call.op = "update"
    /\ call.ret[3] = TRUE
    /\ velocity.y > 0
    /\ ~canJump

(***************************************************************************)
(* Properties of CombatSystem.  A call is recognised by what call records  *)
(* of it; the properties restate its effect from the state before it, with *)
(* the program's constants written out (0.5 s, 25 points, speed 20, hit    *)
(* radius 2).                                                              *)
(***************************************************************************)
\* The step is shootProjectile with the camera direction call' records.
ShootStep ==
    /\ call'.op = "shootProjectile"
    /\ ShootProjectile(call'.args[1])

\* The step is checkProjectileHits with the list call' records.
CheckHitsStep ==
    /\ call'.op = "checkProjectileHits"
    /\ CheckProjectileHits(call'.args[1])

\* C11: a shootProjectile call made while update has advanced less than attackRate
\* (0.5 s) in total since the last shot fired returns null and adds no projectile; a
\* call made once at least 0.5 s have been advanced fires.
C11_CooldownGate ==
    [][ ShootStep
        => /\ 2 * advanced < Unit
              => (call'.ret = <<>> /\ projectiles' = projectiles)
           /\ 2 * advanced >= Unit
              => (call'.ret # <<>> /\ Len(projectiles') = Len(projectiles) + 1)
      ]_vars

\* C11 witness: a shot was refused with 0.4 s advanced since the shot before it.
C11_Witness ==
    /\ call.op = "shootProjectile"
    /\ call.ret = <<>>
    /\ 10 * advanced = 4 * Unit
    /\ Len(projectiles) >= 1

\* C12: shootProjectile with attackCooldown > 0 returns null and leaves the cooldown
\* and the projectiles; with attackCooldown <= 0 it sets the cooldown to 0.5 and
\* appends one projectile of damage 25 whose velocity is 20 times the camera's forward
\* direction, of length 20.
C12_ShootEffect ==
    [][ ShootStep
        => IF attackCooldown > 0
           THEN /\ call'.ret = <<>>
                /\ attackCooldown' = attackCooldown
                /\ projectiles' = projectiles
           ELSE /\ 2 * attackCooldown' = Unit
                /\ Len(projectiles') = Len(projectiles) + 1
                /\ SubSeq(projectiles', 1, Len(projectiles)) = projectiles
                /\ call'.ret = <<projectiles'[Len(projectiles')]>>
                /\ LET p == projectiles'[Len(projectiles')]
                       f == call'.args[1]
                   IN  /\ p.damage = 25
                       /\ p.velocity = [x |-> 20 * f.x, y |-> 20 * f.y, z |-> 20 * f.z]
                       /\ p.velocity.x * p.velocity.x + p.velocity.y * p.velocity.y
                            + p.velocity.z * p.velocity.z = (20 * Unit) * (20 * Unit)
      ]_vars

\* C12 witness: a second projectile was fired, with the camera looking down and ahead.
C12_Witness ==
    /\ call.op = "shootProjectile"
    /\ call.ret # <<>>
    /\ call.args[1].y < 0
    /\ Len(projectiles) = 2
    /\ 2 * attackCooldown = Unit

\* The projectile p is within the hit radius of the entity e: distance < 2.
Within2(p, e) ==
    (p.position.x - e.position.x) * (p.position.x - e.position.x)
      + (p.position.y - e.position.y) * (p.position.y - e.position.y)
      + (p.position.z - e.position.z) * (p.position.z - e.position.z) < 4 * Unit * Unit

\* The indices of the entries of list that are alive in h and have p within the radius.
InRangeOf(p, list, h) == {j \in 1..Len(list) : h[list[j]].alive /\ Within2(p, h[list[j]])}

\* The indices of the projectiles that are in range of an alive entry of the list.
NearSome(ps, list, h) == {i \in 1..Len(ps) : InRangeOf(ps[i], list, h) # {}}

\* The projectiles of ps at the indices S, in order.
KeptAt(ps, S) ==
    LET n == Cardinality(S)
        f == CHOOSE g \in [1..n -> S] : \A a, b \in 1..n : a < b => g[a] < g[b]
    IN  [k \in 1..n |-> ps[f[k]]]

\* The number of hit records of hits that credit the entity id.
HitsOn(hits, id) == Cardinality({k \in 1..Len(hits) : hits[k].entity = id})

Least(S) == CHOOSE i \in S : \A j \in S : i <= j

\* C13: checkProjectileHits keeps some of the projectiles, unchanged and in order, and
\* returns one hit record for each it removes.  A projectile in range of no alive
\* target is kept; the first projectile in range of an alive target is removed; each
\* removed one was in range of an alive target; and a target's health drops by 25 for
\* each record that credits it, not below 0.
C13_HitResolution ==
    [][ CheckHitsStep
        => LET list == call'.args[1]
               near == NearSome(projectiles, list, heap)
           IN  /\ \E S \in SUBSET (1..Len(projectiles)) :
                    /\ projectiles' = KeptAt(projectiles, S)
                    /\ (1..Len(projectiles)) \ near \subseteq S
                    /\ (1..Len(projectiles)) \ S \subseteq near
                    /\ near # {} => Least(near) \notin S
               /\ Len(call'.ret) = Len(projectiles) - Len(projectiles')
               /\ \A k \in 1..Len(call'.ret) : call'.ret[k].damage = 25
               /\ \A id \in DOMAIN heap :
                    LET left == heap[id].health - 25 * HitsOn(call'.ret, id)
                    IN  heap'[id].health = IF left > 0 THEN left ELSE 0
      ]_vars

\* C13 witness: the one live projectile, at the place of a zombie of full health, was
\* removed and one record returned; the zombie has 25 points less and is alive.
C13_Witness ==
    /\ call.op = "checkProjectileHits"
    /\ Len(call.ret) = 1
    /\ call.effects = <<heap[1].position>>
    /\ call.ret[1].entity = 1
    /\ heap[1].health = 25
    /\ heap[1].alive
    /\ heap[2].health = 50
    /\ projectiles = <<>>

\* C14: a projectile damages at most one target in a call, and the projectile that is
\* the first to hit credits the first entry of the list, in list order, that is alive
\* and within the radius, whatever the distances of the later entries.
C14_ListOrder ==
    [][ CheckHitsStep
        => LET list == call'.args[1]
               near == NearSome(projectiles, list, heap)
           IN  /\ Len(call'.ret) <= Len(projectiles)
               /\ near # {}
                  => /\ call'.ret # <<>>
                     /\ call'.ret[1].entity
                          = list[Least(InRangeOf(projectiles[Least(near)], list, heap))]
      ]_vars

\* C14 witness: called with the list <<2, 1>>, a projectile at the place of zombie 1,
\* 1.5 from zombie 2, was credited to zombie 2 and left zombie 1 unharmed.
C14_Witness ==
    /\ call.op = "checkProjectileHits"
    /\ call.args[1] = <<2, 1>>
    /\ call.effects = <<heap[1].position>>
    /\ call.ret = <<[entity |-> 2, damage |-> 25]>>
    /\ heap[1].alive
    /\ heap[1].health = 50

\* C15: checkProjectileHits neither damages nor credits an entity that is not alive:
\* an entity dead before the call keeps its fields and gets no hit record, and an
\* entity hit in the call is alive at each of its hits, so its onDeath runs at most
\* once more and the projectiles in range only of the dead stay.
C15_DeadNeverHit ==
    [][ CheckHitsStep
        => \A id \in DOMAIN heap :
             LET n == HitsOn(call'.ret, id)
             IN  /\ ~heap[id].alive => (n = 0 /\ heap'[id] = heap[id])
                 /\ n > 0 => 25 * (n - 1) < heap[id].health
                 /\ heap'[id].onDeaths - heap[id].onDeaths
                      = IF heap[id].alive /\ ~heap'[id].alive THEN 1 ELSE 0
      ]_vars

\* C15 witness: called with both zombies, the first projectile killed zombie 1 and the
\* second, in range of zombie 1 alone, stayed and left no record.
C15_Witness ==
    /\ call.op = "checkProjectileHits"
    /\ call.args[1] = <<1, 2>>
    /\ call.ret = <<[entity |-> 1, damage |-> 25]>>
    /\ ~heap[1].alive
    /\ heap[1].onDeaths = 1
    /\ Len(projectiles) = 1
    /\ Within2(projectiles[1], heap[1])
    /\ ~Within2(projectiles[1], heap[2])
    /\ heap[2].alive

(***************************************************************************)
(* Properties of Entity.takeDamage and of the player's health.             *)
(***************************************************************************)
\* The step is takeDamage on the entity and with the amount call' records.
TakeDamageStep ==
    /\ call'.op = "takeDamage"
    /\ TakeDamage(call'.args[1], call'.args[2])

\* C16: under any takeDamage calls with positive amounts an entity's health stays in
\* 0..maxHealth and drops by the amount, not below 0; alive turns false at the call
\* that brings the health to 0 or below and is never true again; a call on a dead
\* entity leaves health 0 and alive false.
C16_HealthBounds ==
    [][ TakeDamageStep
        => LET id == call'.args[1]
               left == heap[id].health - call'.args[2]
           IN  /\ heap'[id].health = IF left > 0 THEN left ELSE 0
               /\ heap'[id].health >= 0
               /\ heap'[id].health <= heap'[id].maxHealth
               /\ heap'[id].alive = (heap[id].alive /\ left > 0)
               /\ heap'[id].alive = (heap'[id].health > 0)
               /\ ~heap[id].alive => (heap'[id].health = 0 /\ ~heap'[id].alive)
               /\ \A other \in (DOMAIN heap) \ {id} : heap'[other] = heap[other]
      ]_vars

\* C16 witness: the dragon took 200 points at once and then a further call: it is
\* dead with health 0.
C16_Witness ==
    /\ call.op = "takeDamage"
    /\ call.args[1] = 2
    /\ heap[2].health = 0
    /\ ~heap[2].alive
    /\ heap[2].onDeaths = 2
    /\ heap[1].health = 50

\* C17: onDeath runs once per entity, at the takeDamage call that first brings its
\* health to 0: in a call on an alive entity it runs exactly when the health reaches
\* 0, and in a call on a dead entity it does not run.
C17_OnDeathOnce ==
    [][ TakeDamageStep
        => LET id == call'.args[1]
           IN  heap'[id].onDeaths - heap[id].onDeaths
                 = IF heap[id].alive /\ heap[id].health - call'.args[2] <= 0 THEN 1 ELSE 0
      ]_vars

\* The step is the player health call that call' records.
PlayerStep ==
    /\ call'.op \in {"damagePlayer", "healPlayer", "resetPlayer", "isPlayerAlive"}
    /\ \/ call'.op = "damagePlayer" /\ DamagePlayer(call'.args[1])
       \/ call'.op = "healPlayer" /\ HealPlayer(call'.args[1])
       \/ call'.op = "resetPlayer" /\ ResetPlayer
       \/ call'.op = "isPlayerAlive" /\ IsPlayerAlive

\* C18: under any damagePlayer, healPlayer and resetPlayer calls with non-negative
\* amounts the player's health stays in 0..100: damagePlayer(a) gives max(0, h - a),
\* healPlayer(a) gives min(100, h + a), resetPlayer gives 100, and isPlayerAlive is
\* true exactly when the health is positive.
C18_PlayerHealthClamped ==
    [][ PlayerStep
        => /\ playerHealth' >= 0
           /\ playerHealth' <= 100
           /\ call'.op = "damagePlayer"
              => playerHealth' = IF playerHealth - call'.args[1] > 0
                                 THEN playerHealth - call'.args[1] ELSE 0
           /\ call'.op = "healPlayer"
              => playerHealth' = IF playerHealth + call'.args[1] < 100
                                 THEN playerHealth + call'.args[1] ELSE 100
           /\ call'.op = "resetPlayer" => playerHealth' = 100
           /\ call'.op = "isPlayerAlive"
              => (playerHealth' = playerHealth /\ call'.ret = (playerHealth > 0))
      ]_vars

\* C18 witness: damagePlayer(15) found a health of 10 and left it at 0.
C18_Witness ==
    /\ call.op = "damagePlayer"
    /\ call.args[1] = 15
    /\ call.before = 10
    /\ playerHealth = 0

(***************************************************************************)
(* Properties of Game: the frames and the input listeners.                 *)
(***************************************************************************)
\* A step that is one run of Game.animate.
AnimateStep == call'.op = "animate" /\ frameNo' = frameNo + 1

\* C19: while gameState is not 'playing', no frame and no input event (key, mouse,
\* touch) changes the player's position, velocity or canJump, an entity's position,
\* health, AI state or cooldown, the attack cooldown, the projectiles or the player's
\* health.
C19_FrozenWhenNotPlaying ==
    [][gameState # "playing"
       => UNCHANGED <<camera, velocity, canJump, heap,
                      attackCooldown, projectiles, playerHealth>>]_vars

\* C20: every frame in state 'playing' runs, in this order and each once,
\* Controls.update, the update of every listed entity, CombatSystem.update,
\* checkProjectileHits, the cleanup and the respawn of the zombies, and the victory
\* and defeat checks.
C20_FrameOrder ==
    [][AnimateStep /\ gameState = "playing"
       => /\ ~call'.thrown
          /\ call'.ret = <<"controls.update", "entities.update", "combat.update",
                          "checkProjectileHits", "cleanup", "respawn",
                          "checkVictory", "checkDefeat">>]_vars

\* C21: an entity whose alive flag is false undergoes no change of position, AI state,
\* cooldown or owned projectiles in any later frame, and later hit resolution does not
\* select it (its health and its count of deaths stay); at the end of every frame no
\* dead zombie is on the zombies list or on the entities list.
C21_DeadEntitiesInert ==
    [][ /\ \A id \in DOMAIN heap : ~heap[id].alive => heap'[id] = heap[id]
        /\ AnimateStep
           => \A id \in DOMAIN heap' :
                  heap'[id].kind = "Zombie" /\ ~heap'[id].alive
                  => id \notin Listed(zombies') \cup Listed(entities')
      ]_vars

\* C21 witness: the zombie 6 away from the camera was killed by a shot in a frame, is
\* on neither list, and a later frame has updated the zombie spawned in its place.
C21_Witness ==
    /\ call.op = "animate"
    /\ ~heap[7].alive
    /\ 7 \notin Listed(zombies) \cup Listed(entities)
    /\ 8 \in DOMAIN heap
    /\ 8 \in Listed(zombies) \cap Listed(entities)
    /\ heap[8].attackCooldown < 0

\* Every boss on the list is dead in the heap h.
allBossesDefeated(h) == \A id \in Listed(bosses) : ~h[id].alive

C23_MonsterAttacksReach ==
    [][ AnimateStep /\ gameState = "playing"
        => \A id \in Listed(bosses) :
              heap'[id].kind = "FireDragon" /\ heap'[id].alive
              => \A i \in 1..Len(heap'[id].fireballs) :
                     ~closerThan(heap'[id].fireballs[i].position, camera', Unit)
      ]_vars

\* The step is a call of open on the box call' records.
OpenStep ==
    /\ call'.op = "open"
    /\ Open(call'.args[1])

\* C24: a treasure box stays locked until all bosses are defeated: before and after
\* every step a box with locked = false implies that every boss is dead; open() on a
\* locked or already opened box returns false and changes nothing; opened becomes true
\* only by an open() that finds the box unlocked and returns true, and stays true, so
\* a box is opened at most once and never while locked.
C24_TreasureLocked ==
    [][ /\ \A id \in Listed(treasures) :
              /\ ~heap[id].locked => allBossesDefeated(heap)
              /\ ~heap'[id].locked => allBossesDefeated(heap')
              /\ heap[id].opened => heap'[id].opened
              /\ ~heap[id].opened /\ heap'[id].opened
                 => /\ OpenStep
                    /\ call'.args[1] = id
                    /\ call'.ret = TRUE
                    /\ ~heap[id].locked
        /\ OpenStep
           => /\ call'.ret = (~heap[call'.args[1]].locked /\ ~heap[call'.args[1]].opened)
              /\ call'.ret = FALSE => heap' = heap
      ]_vars

\* C24 witness: after the victory unlocked the boxes, the first box was opened, and
\* another open() on it returned false.
C24_Witness ==
    /\ call.op = "open"
    /\ call.args[1] = 3
    /\ call.ret = FALSE
    /\ heap[3].opened
    /\ ~heap[3].locked
    /\ heap[4].locked = FALSE
    /\ gameState = "victory"

\* C25: victory is declared only once the player, after the bosses' defeat, has
\* approached a treasure box: a step that makes gameState 'victory' leaves the camera
\* within 30 of some treasure box, which is further than any approach.
C25_VictoryNeedsApproach ==
    [][ gameState = "playing" /\ gameState' = "victory"
        => \E id \in Listed(treasures) :
               closerThan(heap'[id].position, camera', 30 * Unit)
      ]_vars

(***************************************************************************)
(* Properties of the flight of the projectiles.                            *)
(***************************************************************************)
\* The step is CombatSystem.update with the delta call' records.
CombatUpdateStep ==
    /\ call'.op = "update"
    /\ CombatUpdate(call'.args[1])

\* C26: update(delta) moves every live projectile by velocity * delta and removes it
\* exactly when, after the move, its distance from the point it was fired from exceeds
\* 2 * attackRange = 60; a projectile at a distance of 60 or less stays live.
C26_RemovedBeyondOrigin ==
    [][ CombatUpdateStep
        => projectiles' =
               SelectSeq([i \in 1..Len(projectiles) |->
                             [projectiles[i] EXCEPT
                                 !.position = VAdd(@, VScale(projectiles[i].velocity,
                                                             call'.args[1]))]],
                         LAMBDA p : DistanceSquared(p.position, p.origin)
                                      <= (60 * Unit) * (60 * Unit))
      ]_vars

\* The projectile fired under the identity i is live.
Live(i) == \E k \in 1..Len(projectiles) : projectiles[k].id = i

\* C27: while frames with a positive delta keep coming, every projectile fired is
\* removed from the live projectiles at some later time, wherever the camera moves.
C27_EveryProjectileRemoved == \A i \in 1..MaxProjectiles : Live(i) ~> ~Live(i)

\* C27 witness: the first projectile fired has left the live projectiles in an update
\* while the second is in flight, and no enemy was hit.
C27_Witness ==
    /\ call.op = "update"
    /\ Len(projectiles) = 1
    /\ projectiles[1].id = 2
    /\ heap = Targets

(***************************************************************************)
(* Properties of Zombie.update.                                            *)
(***************************************************************************)
\* The step is an update of the zombie; call' records delta, the player's position
\* and the random draws.
ZombieStep == call'.op = "Zombie.update" /\ frameNo' = frameNo + 1

\* The square of the zombie's distance to the player at the start of the step.
PlayerDistanceSquared ==
    (heap[1].position.x - camera.x) * (heap[1].position.x - camera.x)
      + (heap[1].position.y - camera.y) * (heap[1].position.y - camera.y)
      + (heap[1].position.z - camera.z) * (heap[1].position.z - camera.z)

\* The zombie wanders, has not reached its target (it is more than 0.1 away, level),
\* and its dwell timer is at 0 or below once the step's delta is taken off.
WanderDwellOver ==
    /\ ZombieStep
    /\ heap[1].alive
    /\ heap[1].state = "wander"
    /\ heap[1].stateTimer - call'.args[1] <= 0
    /\ 100 * ((heap[1].wanderTarget.x - heap[1].position.x)
                 * (heap[1].wanderTarget.x - heap[1].position.x)
               + (heap[1].wanderTarget.z - heap[1].position.z)
                 * (heap[1].wanderTarget.z - heap[1].position.z)) > Unit * Unit

\* C28 as claimed: a wandering zombie whose dwell timer is at 0 or below at an update,
\* its target not reached, is in state 'idle' after the update, with a new dwell of 1
\* to 3 s, for every position of the player.
C28_WanderEndsIdle ==
    [][ WanderDwellOver
        => /\ heap'[1].state = "idle"
           /\ heap'[1].stateTimer \in Unit..(3 * Unit)
      ]_vars

\* C28 as amended: such a zombie has a new dwell of 1 to 3 s after the update, and is
\* in state 'idle' unless the update spots the player (the distance at its start is
\* below aggroRange = 15 and the draw is below 0.05), when it is in state 'chase'.
C28_WanderEndsIdleUnlessSpotted ==
    [][ WanderDwellOver
        => /\ heap'[1].stateTimer \in Unit..(3 * Unit)
           /\ heap'[1].state =
                  IF PlayerDistanceSquared < (15 * Unit) * (15 * Unit)
                     /\ 100 * call'.args[3][4] < 5 * Unit
                  THEN "chase" ELSE "idle"
      ]_vars

\* C28 witness: the dwell of the wandering zombie ended in the first update, with the
\* player 10 away and not spotted, and the zombie idles with a dwell of 1 s.
C28_Witness ==
    /\ call.op = "Zombie.update"
    /\ frameNo = 1
    /\ heap[1].state = "idle"
    /\ heap[1].stateTimer = Unit
    /\ heap[1].position = ZombieStart
    /\ camera.x = 10 * Unit

\* C29: a chasing zombie is still in 'chase' after an update when its distance to the
\* player at the start of the update is at most 1.5 * aggroRange = 22.5, and is in
\* 'idle' with a dwell timer of 2 when that distance is above 22.5.
C29_ChaseHysteresis ==
    [][ ZombieStep /\ heap[1].alive /\ heap[1].state = "chase"
        => IF 4 * PlayerDistanceSquared <= (45 * Unit) * (45 * Unit)
           THEN heap'[1].state = "chase"
           ELSE heap'[1].state = "idle" /\ heap'[1].stateTimer = 2 * Unit
      ]_vars

\* C29 witness: the chasing zombie, exactly 22.5 from the player, kept chasing in the
\* first update and ran towards the player.
C29_Witness ==
    /\ call.op = "Zombie.update"
    /\ frameNo = 1
    /\ heap[1].state = "chase"
    /\ heap[1].stateTimer < -(5 * Unit)
    /\ 10 * camera.x = 225 * Unit
    /\ heap[1].position.x > 0

\* C30: an update takes the zombie from 'idle' or 'wander' to 'chase' only when its
\* distance to the player at the start of the update is below aggroRange = 15.
C30_ChaseOnlyWithinAggro ==
    [][ ZombieStep /\ heap[1].state \in {"idle", "wander"} /\ heap'[1].state = "chase"
        => PlayerDistanceSquared < (15 * Unit) * (15 * Unit)
      ]_vars

\* C30 witness: the zombie as constructed spotted the player, 10 away, in its first
\* update, on leaving 'idle'.
C30_Witness ==
    /\ call.op = "Zombie.update"
    /\ frameNo = 1
    /\ heap[1].state = "chase"
    /\ heap[1].stateTimer >= 2 * Unit
    /\ camera.x = 10 * Unit


\* An update of the living boss: delta is call'.args[1], and the player's position at
\* the start, which the update leaves, is camera.
BossStep == call'.op = "Boss.update" /\ frameNo' = frameNo + 1

\* C31 (as claimed): a boss whose update finds the player farther than 1.5 times its
\* aggroRange is back to its passive patrol after that update: it is not aggressive.
C31_BossRevertsToPatrol ==
    [][ /\ BossStep
        /\ heap[1].alive
        /\ 4 * PlayerDistanceSquared > 9 * heap[1].aggroRange * heap[1].aggroRange
        => ~heap'[1].isAggressive
      ]_vars

\* The attack range of a boss: 15 for the dragon's fireballs, 8 for the jellyfish's
\* shocks.
BossAttackRange == IF heap[1].kind = "FireDragon" THEN 15 * Unit ELSE 8 * Unit

\* C32: a boss emits a fireball or a shock in an update only if it is aggressive, its
\* attack cooldown less the update's delta is <= 0 and the player, at the distance
\* measured at the start of the update, is closer than 15 (dragon) or 8 (jellyfish);
\* the emission sets the cooldown to attackRate, and at least attackRate (2 s, 3 s)
\* of advanced time, this update's delta included, lie between it and the emission
\* before.
C32_EmissionsSeparated ==
    [][ BossStep /\ call'.effects = <<"emit">>
        => /\ heap'[1].isAggressive
           /\ heap[1].attackCooldown - call'.args[1] <= 0
           /\ PlayerDistanceSquared < BossAttackRange * BossAttackRange
           /\ heap'[1].attackCooldown = heap[1].attackRate
           /\ advanced + call'.args[1] >= heap[1].attackRate
      ]_vars

\* C32 witness: the dragon has shot in the first update and again in the second, 2 s
\* later, and both fireballs fly.
C32_Witness ==
    /\ call.op = "Boss.update"
    /\ call.effects = <<"emit">>
    /\ heap[1].kind = "FireDragon"
    /\ frameNo = 2
    /\ advanced = 0
    /\ Len(heap[1].fireballs) = 2


\* The dragon is dead and fireballs it has shot are still in its list.  (A dead boss
\* stays dead.)
FireballsOfDeadDragon ==
    heap[1].kind = "FireDragon" /\ ~heap[1].alive /\ heap[1].fireballs # <<>>

\* C39 (as claimed): as the frames keep occurring, the fireballs in flight when the
\* dragon dies are eventually removed from its fireball list.
C39_FireballsOfDeadDragonRemoved == FireballsOfDeadDragon ~> ~FireballsOfDeadDragon


\* C33: each axis of an update moves to its candidate whenever the body is free at the
\* candidate, whatever lies between, also when the displacement exceeds one block:
\* x at the old y and z, then z at the new x and the old y, then y at the new x and z.
C33_EndPositionOnly ==
    [][ UpdateStep
        => /\ ~BoxHit(CandX, camera.y, camera.z) => camera'.x = CandX
           /\ ~BoxHit(camera'.x, camera.y, CandZ) => camera'.z = CandZ
           /\ ~BoxHit(camera'.x, CandY, camera'.z) => camera'.y = CandY
      ]_vars

\* C33 witness: a frame of 1 s has taken the body from above the one-block floor to
\* below it: the floor block over the body is still there.
C33_Witness ==
    /\ call.op = "update"
    /\ call.args[1] = Unit
    /\ call.ret[3] = TRUE
    /\ camera.y + playerHeight < 0
    /\ hasBlock(worldData, camera.x, 0, camera.z)


\* C34: an update begun with the player's box free of stored cells ends with it free
\* (the store is left alone): every accepted move was tested where it ends, and the
\* ground snap lowers the box within the cells it was tested free in.
C34_StaysFree ==
    [][ UpdateStep /\ ~BoxHit(camera.x, camera.y, camera.z)
        => ~BoxHit(camera'.x, camera'.y, camera'.z)
      ]_vars

\* C34 witness: the body, walking against the pillar, had its X move rejected, fell
\* onto the floor and was snapped to a whole height; its box is free.
C34_Witness ==
    /\ call.op = "update"
    /\ call.ret[1] = FALSE
    /\ call.ret[3] = FALSE
    /\ canJump
    /\ camera.y = Unit
    /\ ~BoxHit(camera.x, camera.y, camera.z)


\* C35: a vertical move rejected while velocity.y, after gravity, is >= 0 (the body
\* rises into a ceiling) leaves y and canJump as they were and sets velocity.y to 0:
\* a ceiling hit does not ground the body.
C35_CeilingHit ==
    [][ UpdateStep /\ BoxHit(camera'.x, CandY, camera'.z) /\ CandVy >= 0
        => /\ camera'.y = camera.y
           /\ canJump' = canJump
           /\ velocity'.y = 0
      ]_vars

\* C35 witness: the body, in the air under the overhanging block, was stopped by it in
\* a frame of positive length and is not grounded.
C35_Witness ==
    /\ call.op = "update"
    /\ call.args[1] > 0
    /\ call.ret[3] = FALSE
    /\ ~canJump
    /\ velocity.y = 0
    /\ camera.y = Unit


C37_NoShotAfterOutcome ==
    [][ (gameState = "victory" \/ gameState = "defeat")
        => /\ Len(projectiles') <= Len(projectiles)
           /\ attackCooldown' = attackCooldown
      ]_vars


\* C38 (as claimed): a frame of state 'playing' whose physics step leaves the player
\* within 3.5 of the living machine gun completes the pickup (the gun is no longer
\* alive and is off the entities list) and runs to its end.
C38_PickupCompletes ==
    [][ /\ AnimateStep
        /\ gameState = "playing"
        /\ heap[machineGun].alive
        /\ canPickup(heap[machineGun], camera')
        => /\ ~heap'[machineGun].alive
           /\ machineGun \notin Listed(entities')
           /\ ~call'.thrown
      ]_vars

====
